---- MODULE Spec2Model ----
(***************************************************************************)
(* Model of the ytaudiobar audio playback engine                           *)
(* (src-tauri/src/audio_manager.rs): the AudioManager command API, the     *)
(* shared AudioState snapshot, the command channel, and the dedicated      *)
(* audio thread with its PlaybackTimer, sink and retained sample buffer.   *)
(*                                                                         *)
(* Units.  Wall-clock time advances in steps of 2 s (action TimePasses).   *)
(* Positions and durations are counted in half seconds, playback rates in  *)
(* quarters (1.0 = 4), so a running timer advances by `rate` position      *)
(* units per time step.  Volumes are counted in halves (1.0 = 2).          *)
(* Sample counts are exact: one position unit is SAMPLE_RATE * CHANNELS    *)
(* \div 2 interleaved samples.                                             *)
(***************************************************************************)
EXTENDS Integers, Sequences, FiniteSets, TLC

\* ---------------------------------------------------------------- bounds
\* Number of API calls submitted in one behaviour.
MaxCalls == 3
\* Time steps a timer may run past its anchor before time stops advancing.
MaxElapsed == 2

\* ------------------------------------------------------ program constants
SAMPLE_RATE == 44100
CHANNELS == 2
\* volume.max(0.0).min(1.0), in halves
VolMin == 0
VolMax == 2
\* rate.max(0.25).min(2.0), in quarters
RateMin == 1
RateMax == 8
\* AudioState::default(): volume 1.0, playback_rate 1.0
DefaultVolume == 2
DefaultRate == 4
\* `current_pos >= duration - 0.5`, in half seconds
EndTolerance == 1

\* ------------------------------------------------------------- input sets
Callers == {"c1", "c2"}
\* Track descriptors (YTVideoInfo) by id; duration is in whole seconds.
Tracks == {"A", "B"}
NoTrack == "none"
\* A track longer than one time step plus the end tolerance.
LongTrack == "C"
\* Submitted volumes (halves), rates (quarters) and seek positions (half
\* seconds): below, inside and above the accepted range.
VolumeInputs == {-1, 1, 3}
RateInputs == {0, 2, 9}
SeekInputs == {-1, 2, 9}
\* Lengths of the decoded audio an acquisition may return, in half seconds
\* of audio: as long as track B says, shorter than track A says, and longer
\* than either descriptor says.
AudioLengths == {2, 5}

\* ---------------------------------------------------------------- helpers
Min(a, b) == IF a < b THEN a ELSE b
Max(a, b) == IF a > b THEN a ELSE b

\* YTVideoInfo.duration (i64 seconds) of the tracks.
TrackSeconds(t) ==
    CASE t = "A" -> 2 [] t = "B" -> 1 [] t = "C" -> 3 [] OTHER -> 0

\* `track.duration as f64`, in position units.
TrackDuration(t) == 2 * TrackSeconds(t)

\* Samples in one position unit of audio.
SamplesPerUnit == (SAMPLE_RATE * CHANNELS) \div 2

VARIABLES
    state,                  \* Arc<Mutex<AudioState>>: the shared snapshot
    command_rx,             \* commands in the unbounded channel
    rx_alive,               \* the receiver end still exists
    state_change,           \* notifications pending in state_change_tx/rx
    api,                    \* per caller: the API call in progress
    calls,                  \* API calls submitted so far
    pc,                     \* position of the audio thread
    command,                \* the audio thread's dequeued command
    current_sink,           \* Option<Sink>
    current_samples,        \* Option<Vec<i16>>: its length in samples
    position_timer,         \* PlaybackTimer
    last_position_update,   \* time steps since that instant, at most 1
    pos_local,              \* position value held across two lock scopes
    prior_engine,           \* history: engine state when Play handling began
    play_failed,            \* history: the last handled Play failed
    live_sinks,             \* sinks created and not yet stopped or dropped
    app_handle,             \* Arc<Mutex<Option<AppHandle>>>: a handle is set
    watcher,                \* position of the task set_app_handle spawns
    last_event,             \* the last "playback-state-changed" payload
    current_state,          \* the watcher's clone of the snapshot
    locks,                  \* lock discipline: the holder of each mutex
    todo,                   \* lock discipline: what each task has left to do
    queue_state,            \* QueueManager.state: Arc<Mutex<QueueState>>
    playlist,               \* position of a play_playlist command
    active_downloads,       \* DownloadManager: HashMap<String, DownloadProgress>
    completed_downloads,    \* DownloadManager: Vec<String> of video ids
    download,               \* per caller: the download_track call in progress
    task,                   \* per caller: the download task its call spawned
    cancelled               \* history: ids cancelled and not requested since

vars == <<state, command_rx, rx_alive, state_change, api, calls, pc, command,
          current_sink, current_samples, position_timer,
          last_position_update, pos_local, prior_engine, play_failed,
          live_sinks, app_handle, watcher, last_event, current_state,
          locks, todo, queue_state, playlist, active_downloads,
          completed_downloads, download, task, cancelled>>

engineVars == <<pc, command, current_sink, current_samples, position_timer,
                last_position_update, pos_local, prior_engine, play_failed,
                live_sinks>>

watcherVars == <<app_handle, watcher, last_event, current_state>>

lockVars == <<locks, todo>>

queueVars == <<queue_state, playlist>>

downloadVars == <<active_downloads, completed_downloads, download, task,
                  cancelled>>

managerVars == <<queueVars, downloadVars>>

\* ------------------------------------------------------------ AudioState
AudioStateDefault ==
    [is_playing |-> FALSE, current_position |-> 0, duration |-> 0,
     volume |-> DefaultVolume, playback_rate |-> DefaultRate,
     current_track |-> NoTrack, is_loading |-> FALSE]

\* ---------------------------------------------------------- PlaybackTimer
TimerNew == [running |-> FALSE, start_position |-> 0, elapsed |-> 0,
             playback_rate |-> DefaultRate]

\* Mutant: start() ignores the position it is given.
TimerStartAtZero(t, position, rate) ==
    [running |-> TRUE, start_position |-> 0, elapsed |-> 0,
     playback_rate |-> rate]

\* start(): the clock runs from `position` at `rate`.
TimerStart(t, position, rate) ==
    [running |-> TRUE, start_position |-> position, elapsed |-> 0,
     playback_rate |-> rate]

TimerCurrentPosition(t) ==
    IF t.running THEN t.start_position + t.elapsed * t.playback_rate
    ELSE t.start_position

\* Mutant: the position reached is not saved.
TimerPauseKeepsAnchor(t) == [t EXCEPT !.running = FALSE, !.elapsed = 0]

\* pause(): the position reached becomes the anchor, the clock is dropped.
TimerPause(t) ==
    [t EXCEPT !.start_position = TimerCurrentPosition(t),
              !.running = FALSE, !.elapsed = 0]

\* Mutant: the rate is replaced without re-anchoring the running timer.
TimerSetRateNoAnchor(t, rate) == [t EXCEPT !.playback_rate = rate]

\* set_rate(): a running timer is re-anchored at the position reached.
TimerSetRate(t, rate) ==
    IF t.running
    THEN [t EXCEPT !.start_position = TimerCurrentPosition(t),
                   !.elapsed = 0, !.playback_rate = rate]
    ELSE [t EXCEPT !.playback_rate = rate]

TimerIsPlaying(t) == t.running

\* Mutant: stop() keeps the anchor.
TimerStopKeepsAnchor(t) == [t EXCEPT !.running = FALSE, !.elapsed = 0]

\* stop(): no clock, position 0.
TimerStop(t) == [t EXCEPT !.running = FALSE, !.elapsed = 0,
                          !.start_position = 0]

\* ------------------------------------------------------------------ Sink
NoSink == [some |-> FALSE, left |-> 0, paused |-> FALSE, volume |-> 0,
           speed |-> 0]

\* Mutant: a new sink keeps rodio's defaults, volume 1.0 and speed 1.0.
NewSinkDefaultSettings(n, volume, rate) ==
    [some |-> TRUE, left |-> n, paused |-> FALSE, volume |-> DefaultVolume,
     speed |-> DefaultRate]

\* A sink fed `n` samples, configured and started as the code does it:
\* set_volume, set_speed, append, play.
NewSink(n, volume, rate) ==
    [some |-> TRUE, left |-> n, paused |-> FALSE, volume |-> volume,
     speed |-> rate]

\* Sink::empty(): every appended sample has been played.
SinkEmpty(s) == s.left = 0

\* ------------------------------------------------------- sample buffer
NoSamples == [some |-> FALSE, len |-> 0]
Samples(n) == [some |-> TRUE, len |-> n]

\* -------------------------------------------------------------- commands
Cmd(op, track, val) == [op |-> op, track |-> track, val |-> val]
NoCommand == Cmd("none", NoTrack, 0)

IdleCall == [op |-> "none", track |-> NoTrack, val |-> 0, pc |-> "idle",
             ret |-> "none"]

NoPrior == [some |-> FALSE, sink |-> NoSink, samples |-> NoSamples,
            timer |-> TimerNew]

\* The three mutexes: the snapshot, the app handle, the notification
\* receiver; and the tasks and threads that take them.
Mutexes == {"state", "app_handle", "state_change_rx"}
Tasks == {"engine", "get_state", "play", "set_app_handle", "watcher"}
NoHolder == "none"

\* QueueState::default()
QueueStateDefault ==
    [queue |-> << >>, current_index |-> -1, shuffle_mode |-> FALSE,
     repeat_mode |-> "Off", original_queue |-> << >>]

\* No play_playlist command is between two of its queue calls.
NoPlaylist == [pc |-> "idle", tracks |-> << >>]

\* The tauri commands that call download_track concurrently, and the video
\* ids they ask for.
Downloaders == {"d1", "d2"}
VideoIds == {"A", "B"}

\* No download_track call in progress; no task spawned or the task is over.
IdleDownload == [pc |-> "idle", id |-> "A", ret |-> "none"]
NoTask == [pc |-> "none", id |-> "A"]

\* No event has been emitted yet.
NoEvent == [some |-> FALSE, payload |-> AudioStateDefault]

Init ==
    /\ state = AudioStateDefault
    /\ command_rx = << >>
    /\ rx_alive = TRUE
    /\ state_change = 0
    /\ api = [c \in Callers |-> IdleCall]
    /\ calls = 0
    /\ pc = "start"
    /\ command = NoCommand
    /\ current_sink = NoSink
    /\ current_samples = NoSamples
    /\ position_timer = TimerNew
    /\ last_position_update = 0
    /\ pos_local = 0
    /\ prior_engine = NoPrior
    /\ play_failed = FALSE
    /\ live_sinks = 0
    /\ app_handle = FALSE
    /\ watcher = "off"
    /\ last_event = NoEvent
    /\ current_state = AudioStateDefault
    /\ locks = [l \in Mutexes |-> NoHolder]
    /\ todo = [p \in Tasks |-> << >>]
    /\ queue_state = QueueStateDefault
    /\ playlist = NoPlaylist
    /\ active_downloads = {}
    /\ completed_downloads = << >>
    /\ download = [d \in Downloaders |-> IdleDownload]
    /\ task = [d \in Downloaders |-> NoTask]
    /\ cancelled = {}

\* =========================================================================
\* AudioManager: the command API.  Every lock scope is one step; the send
\* that follows it is another, so callers interleave as tokio tasks do.
\* =========================================================================

\* Mutant: the lower bound is not applied.
ClampVolumeNoFloor(v) == Min(v, VolMax)

\* volume.max(0.0).min(1.0)
ClampVolume(v) == Min(Max(v, VolMin), VolMax)

\* Mutant: the upper bound is not applied.
ClampRateNoCeiling(r) == Max(r, RateMin)

\* rate.max(0.25).min(2.0)
ClampRate(r) == Min(Max(r, RateMin), RateMax)

\* Mutant: the position is not limited by the duration.
ClampSeekNoDuration(position, duration) == Max(position, 0)

\* position.min(duration).max(0.0)
ClampSeek(position, duration) == Max(Min(position, duration), 0)

\* Mutant: is_playing is left as it was.
PlayOptimisticKeepsPlaying(st, track) ==
    [st EXCEPT !.current_track = track,
               !.is_loading = TRUE,
               !.current_position = 0,
               !.duration = TrackDuration(track)]

\* The snapshot play() writes under its lock.
PlayOptimistic(st, track) ==
    [st EXCEPT !.current_track = track,
               !.is_loading = TRUE,
               !.is_playing = FALSE,
               !.current_position = 0,
               !.duration = TrackDuration(track)]

CanCall(c) == api[c].pc = "idle" /\ calls < MaxCalls

\* play() calls emit_state_change() between its lock scope and its send.
\* Without an app handle that call does nothing and is no step of its own;
\* the handle is read as the lock scope ends.
AfterLock(op) == IF op = "Play" /\ app_handle THEN "emit" ELSE "send"

Begin(c, op, track, val) ==
    /\ api' = [api EXCEPT ![c] = [op |-> op, track |-> track, val |-> val,
                                  pc |-> AfterLock(op), ret |-> "none"]]
    /\ calls' = calls + 1

\* play(): the lock scope.
Play(c, track) ==
    /\ CanCall(c)
    /\ state' = PlayOptimistic(state, track)
    /\ Begin(c, "Play", track, 0)
    /\ UNCHANGED <<command_rx, rx_alive, state_change>>
    /\ UNCHANGED engineVars
    /\ UNCHANGED lockVars
    /\ UNCHANGED managerVars
    /\ UNCHANGED watcherVars

\* seek(): reads the duration under the lock and clamps.
Seek(c, position) ==
    /\ CanCall(c)
    /\ Begin(c, "Seek", NoTrack, ClampSeek(position, state.duration))
    /\ UNCHANGED <<state, command_rx, rx_alive, state_change>>
    /\ UNCHANGED engineVars
    /\ UNCHANGED lockVars
    /\ UNCHANGED managerVars
    /\ UNCHANGED watcherVars

\* set_volume(): clamps and stores under the lock.
SetVolume(c, volume) ==
    /\ CanCall(c)
    /\ state' = [state EXCEPT !.volume = ClampVolume(volume)]
    /\ Begin(c, "SetVolume", NoTrack, ClampVolume(volume))
    /\ UNCHANGED <<command_rx, rx_alive, state_change>>
    /\ UNCHANGED engineVars
    /\ UNCHANGED lockVars
    /\ UNCHANGED managerVars
    /\ UNCHANGED watcherVars

\* set_playback_rate(): clamps and stores under the lock.
SetPlaybackRate(c, rate) ==
    /\ CanCall(c)
    /\ state' = [state EXCEPT !.playback_rate = ClampRate(rate)]
    /\ Begin(c, "SetPlaybackRate", NoTrack, ClampRate(rate))
    /\ UNCHANGED <<command_rx, rx_alive, state_change>>
    /\ UNCHANGED engineVars
    /\ UNCHANGED lockVars
    /\ UNCHANGED managerVars
    /\ UNCHANGED watcherVars

\* Mutant: a send to a dropped receiver is not reported.
SendResultAlwaysOk(queue, alive, cmd) ==
    [queue |-> IF alive THEN Append(queue, cmd) ELSE queue, ret |-> "ok"]

\* Mutant: the command is put in front of the queued ones.
SendResultAtFront(queue, alive, cmd) ==
    IF alive THEN [queue |-> <<cmd>> \o queue, ret |-> "ok"]
    ELSE [queue |-> queue, ret |-> "err"]

\* command_tx.send(..): succeeds while the receiver exists.
SendResult(queue, alive, cmd) ==
    IF alive THEN [queue |-> Append(queue, cmd), ret |-> "ok"]
    ELSE [queue |-> queue, ret |-> "err"]

\* set_volume() and set_playback_rate() call emit_state_change() after a
\* send that succeeded; play() and seek() return after the send.
AfterSend(op, ret) ==
    IF op \in {"SetVolume", "SetPlaybackRate"} /\ ret = "ok" /\ app_handle
    THEN "emit" ELSE "idle"

\* The send of play, seek, set_volume and set_playback_rate.
Send(c) ==
    /\ api[c].pc = "send"
    /\ LET r == SendResult(command_rx, rx_alive,
                           Cmd(api[c].op, api[c].track, api[c].val))
       IN /\ command_rx' = r.queue
          /\ api' = [api EXCEPT ![c].pc = AfterSend(api[c].op, r.ret),
                                ![c].ret = r.ret]
    /\ UNCHANGED <<state, rx_alive, state_change, calls>>
    /\ UNCHANGED engineVars
    /\ UNCHANGED lockVars
    /\ UNCHANGED managerVars
    /\ UNCHANGED watcherVars

\* Mutant: the call also writes is_playing = false to the snapshot.
SendOnlyOptimistic(c, op) ==
    /\ CanCall(c)
    /\ LET r == SendResult(command_rx, rx_alive, Cmd(op, NoTrack, 0))
       IN /\ command_rx' = r.queue
          /\ api' = [api EXCEPT ![c] = [op |-> op, track |-> NoTrack,
                                        val |-> 0, pc |-> "idle",
                                        ret |-> r.ret]]
    /\ calls' = calls + 1
    /\ state' = [state EXCEPT !.is_playing = FALSE]
    /\ UNCHANGED <<rx_alive, state_change>>
    /\ UNCHANGED engineVars
    /\ UNCHANGED lockVars
    /\ UNCHANGED managerVars
    /\ UNCHANGED watcherVars

\* toggle_play_pause(), pause(), stop(): the send is the whole call.
SendOnly(c, op) ==
    /\ CanCall(c)
    /\ LET r == SendResult(command_rx, rx_alive, Cmd(op, NoTrack, 0))
       IN /\ command_rx' = r.queue
          /\ api' = [api EXCEPT ![c] = [op |-> op, track |-> NoTrack,
                                        val |-> 0, pc |-> "idle",
                                        ret |-> r.ret]]
    /\ calls' = calls + 1
    /\ UNCHANGED <<state, rx_alive, state_change>>
    /\ UNCHANGED engineVars
    /\ UNCHANGED lockVars
    /\ UNCHANGED managerVars
    /\ UNCHANGED watcherVars

TogglePlayPause(c) == SendOnly(c, "TogglePlayPause")
Pause(c) == SendOnly(c, "Pause")
Stop(c) == SendOnly(c, "Stop")

\* emit_state_change() with an app handle set: the snapshot is cloned under
\* the lock and emitted as "playback-state-changed".
Emit(c) ==
    /\ api[c].pc = "emit"
    /\ last_event' = [some |-> TRUE, payload |-> state]
    /\ api' = [api EXCEPT
                 ![c].pc = IF api[c].op = "Play" THEN "send" ELSE "idle"]
    /\ UNCHANGED <<state, command_rx, rx_alive, state_change, calls,
                   app_handle, watcher, current_state>>
    /\ UNCHANGED engineVars
    /\ UNCHANGED lockVars
    /\ UNCHANGED managerVars

\* set_app_handle(): stores the handle and spawns the watcher task.
SetAppHandle ==
    /\ watcher = "off"
    /\ app_handle' = TRUE
    /\ watcher' = "poll"
    /\ UNCHANGED <<state, command_rx, rx_alive, state_change, api, calls,
                   last_event, current_state>>
    /\ UNCHANGED engineVars
    /\ UNCHANGED lockVars
    /\ UNCHANGED managerVars

\* One poll of the watcher: `rx.try_recv().is_ok()` takes one pending
\* notification if there is one; without one the task sleeps 100 ms.
WatcherPoll ==
    /\ watcher = "poll"
    /\ state_change' = IF state_change > 0 THEN state_change - 1 ELSE 0
    /\ watcher' = IF state_change > 0 THEN "clone" ELSE "poll"
    /\ UNCHANGED <<state, command_rx, rx_alive, api, calls, app_handle,
                   last_event, current_state>>
    /\ UNCHANGED engineVars
    /\ UNCHANGED lockVars
    /\ UNCHANGED managerVars

\* has_change: the snapshot is cloned under the lock, which is released as
\* the statement ends.
WatcherClone ==
    /\ watcher = "clone"
    /\ current_state' = state
    /\ watcher' = "emit"
    /\ UNCHANGED <<state, command_rx, rx_alive, state_change, api, calls,
                   app_handle, last_event>>
    /\ UNCHANGED engineVars
    /\ UNCHANGED lockVars
    /\ UNCHANGED managerVars

\* The clone is emitted, then the task sleeps 100 ms.
WatcherEmit ==
    /\ watcher = "emit"
    /\ last_event' = [some |-> TRUE, payload |-> current_state]
    /\ watcher' = "poll"
    /\ UNCHANGED <<state, command_rx, rx_alive, state_change, api, calls,
                   app_handle, current_state>>
    /\ UNCHANGED engineVars
    /\ UNCHANGED lockVars
    /\ UNCHANGED managerVars


\* =========================================================================
\* audio_thread: the dedicated engine thread.
\* =========================================================================

apiUnchanged == UNCHANGED <<api, calls, rx_alive, app_handle, watcher,
                            last_event, current_state, locks, todo,
                            managerVars>>

\* Mutant: the old sink is left playing.
StopAndDiscardLeaks(sink, n) == n

\* `if let Some(sink) = current_sink.take() { sink.stop(); }`, and
\* `current_sink = None`: the sinks left alive of `n`.
StopAndDiscard(sink, n) == IF sink.some THEN n - 1 ELSE n

\* (position * SAMPLE_RATE * CHANNELS) as usize, then .min(samples.len())
SampleIndex(position, len) ==
    Min((position * SAMPLE_RATE * CHANNELS) \div 2, len)

\* `sink.empty() && position_timer.is_playing()`
EndOfTrackCond(sink, timer) ==
    sink.some /\ SinkEmpty(sink) /\ TimerIsPlaying(timer)

\* `position_timer.is_playing() && last_position_update.elapsed() > 500ms`
PositionUpdateCond(timer, since) == TimerIsPlaying(timer) /\ since >= 1

\* `(current_pos >= duration - 0.5 && duration > 0.0) ||
\*  (current_samples.is_some() && current_sink.is_none())`
TrackEnded(current_pos, duration, samples, sink) ==
    \/ (current_pos >= duration - EndTolerance /\ duration > 0)
    \/ (samples.some /\ ~sink.some)

\* Where the loop goes once the periodic update is behind it: dispatch the
\* command, or sleep and start the next iteration.
AfterPositionUpdate(cmd) == IF cmd = NoCommand THEN "recv" ELSE "dispatch"

\* Where the loop goes once the end-of-track check is behind it.
AfterEndCheck(timer, since, cmd) ==
    IF PositionUpdateCond(timer, since) THEN "pos_read"
    ELSE AfterPositionUpdate(cmd)

\* Where the loop goes after try_recv.
AfterRecv(sink, timer, since, cmd) ==
    IF EndOfTrackCond(sink, timer) THEN "end_check"
    ELSE AfterEndCheck(timer, since, cmd)

\* OutputStream::try_default() succeeds.
EngineStart ==
    /\ pc = "start"
    /\ pc' = "recv"
    /\ UNCHANGED <<state, command_rx, state_change, command, current_sink,
                   current_samples, position_timer, last_position_update,
                   pos_local, prior_engine, play_failed>>
    /\ UNCHANGED live_sinks
    /\ apiUnchanged

\* OutputStream::try_default() fails: the thread returns and drops the
\* receiver with whatever was queued.
EngineStartFails ==
    /\ pc = "start"
    /\ pc' = "dead"
    /\ rx_alive' = FALSE
    /\ command_rx' = << >>
    /\ UNCHANGED <<state, state_change, api, calls, command, current_sink,
                   current_samples, position_timer, last_position_update,
                   pos_local, prior_engine, play_failed, live_sinks>>
    /\ UNCHANGED watcherVars
    /\ UNCHANGED lockVars
    /\ UNCHANGED managerVars

\* Mutant: the channel is also polled while a track is being acquired.
TryRecvDuringAcquisition ==
    /\ pc \in {"recv", "acquiring"}
    /\ LET cmd == IF command_rx = << >> THEN NoCommand ELSE Head(command_rx)
       IN /\ command' = cmd
          /\ command_rx' = IF command_rx = << >> THEN command_rx
                           ELSE Tail(command_rx)
          /\ play_failed' = IF cmd = NoCommand THEN play_failed ELSE FALSE
          /\ pc' = AfterRecv(current_sink, position_timer,
                             last_position_update, cmd)
    /\ UNCHANGED <<state, state_change, current_sink, current_samples,
                   position_timer, last_position_update, pos_local,
                   prior_engine, live_sinks>>
    /\ apiUnchanged

\* command_rx.try_recv().ok()
TryRecv ==
    /\ pc = "recv"
    /\ LET cmd == IF command_rx = << >> THEN NoCommand ELSE Head(command_rx)
       IN /\ command' = cmd
          /\ command_rx' = IF command_rx = << >> THEN command_rx
                           ELSE Tail(command_rx)
          /\ play_failed' = IF cmd = NoCommand THEN play_failed ELSE FALSE
          /\ pc' = AfterRecv(current_sink, position_timer,
                             last_position_update, cmd)
    /\ UNCHANGED <<state, state_change, current_sink, current_samples,
                   position_timer, last_position_update, pos_local,
                   prior_engine>>
    /\ UNCHANGED live_sinks
    /\ apiUnchanged

\* Mutant: the position is left where the last update put it.
EndOfTrackWriteKeepsPosition(st) == [st EXCEPT !.is_playing = FALSE]

\* What the end-of-track check writes to the snapshot.
EndOfTrackWrite(st) ==
    [st EXCEPT !.is_playing = FALSE, !.current_position = st.duration]

\* Mutant: the samples are dropped with the sink when the track ends.
EndOfTrackDropsSamples ==
    /\ pc = "end_check"
    /\ position_timer' = TimerStop(position_timer)
    /\ state' = EndOfTrackWrite(state)
    /\ state_change' = state_change + 1
    /\ current_sink' = NoSink
    /\ current_samples' = NoSamples
    /\ pc' = AfterEndCheck(position_timer', last_position_update, command)
    /\ UNCHANGED <<command_rx, command, last_position_update, pos_local,
                   prior_engine, play_failed>>
    /\ live_sinks' = StopAndDiscard(current_sink, live_sinks)
    /\ apiUnchanged

\* The track has ended: sink empty while the timer runs.
EndOfTrack ==
    /\ pc = "end_check"
    /\ position_timer' = TimerStop(position_timer)
    /\ state' = EndOfTrackWrite(state)
    /\ state_change' = state_change + 1
    /\ current_sink' = NoSink
    /\ pc' = AfterEndCheck(position_timer', last_position_update, command)
    /\ UNCHANGED <<command_rx, command, current_samples,
                   last_position_update, pos_local, prior_engine,
                   play_failed>>
    /\ live_sinks' = StopAndDiscard(current_sink, live_sinks)
    /\ apiUnchanged

\* Periodic update, first lock scope: the timer position, clamped to the
\* duration read from the snapshot.
PositionRead ==
    /\ pc = "pos_read"
    /\ pos_local' = Min(TimerCurrentPosition(position_timer), state.duration)
    /\ pc' = "pos_write"
    /\ UNCHANGED <<state, command_rx, state_change, command, current_sink,
                   current_samples, position_timer, last_position_update,
                   prior_engine, play_failed>>
    /\ UNCHANGED live_sinks
    /\ apiUnchanged

\* Periodic update, second lock scope.
PositionWrite ==
    /\ pc = "pos_write"
    /\ state' = [state EXCEPT !.current_position = pos_local]
    /\ state_change' = state_change + 1
    /\ last_position_update' = 0
    /\ pos_local' = 0
    /\ pc' = AfterPositionUpdate(command)
    /\ UNCHANGED <<command_rx, command, current_sink, current_samples,
                   position_timer, prior_engine, play_failed>>
    /\ UNCHANGED live_sinks
    /\ apiUnchanged

\* Mutant: the arm returns from the thread instead of continuing the loop.
DoneLeavesLoop ==
    /\ pc' = "dead"
    /\ command' = NoCommand

\* The handling of a command is over: back to the top of the loop.
Done ==
    /\ pc' = "recv"
    /\ command' = NoCommand

Dispatching(op) == pc = "dispatch" /\ command.op = op


\* ------------------------------------------------------ AudioCommand::Play
\* Stop current playback and drop the samples; the acquisition follows.
PlayBegin ==
    /\ Dispatching("Play")
    /\ prior_engine' = [some |-> TRUE, sink |-> current_sink,
                        samples |-> current_samples,
                        timer |-> position_timer]
    /\ current_sink' = NoSink
    /\ current_samples' = NoSamples
    /\ pc' = "acquiring"
    /\ UNCHANGED <<state, command_rx, state_change, command, position_timer,
                   last_position_update, pos_local, play_failed>>
    /\ live_sinks' = StopAndDiscard(current_sink, live_sinks)
    /\ apiUnchanged

\* yt-dlp fails to spawn, ffmpeg fails or exits non-zero, or no bytes come
\* back: `continue`.
PlayAcquireFails ==
    /\ pc = "acquiring"
    /\ play_failed' = TRUE
    /\ prior_engine' = NoPrior
    /\ Done
    /\ UNCHANGED <<state, command_rx, state_change, current_sink,
                   current_samples, position_timer, last_position_update,
                   pos_local>>
    /\ UNCHANGED live_sinks
    /\ apiUnchanged

\* The acquisition returns `len` units of audio, Sink::try_new fails.
PlaySinkFails(len) ==
    /\ pc = "acquiring"
    /\ current_samples' = Samples(len * SamplesPerUnit)
    /\ prior_engine' = NoPrior
    /\ Done
    /\ UNCHANGED <<state, command_rx, state_change, current_sink,
                   position_timer, last_position_update, pos_local,
                   play_failed>>
    /\ UNCHANGED live_sinks
    /\ apiUnchanged

\* The acquisition returns `len` units of audio; the sink is created with
\* the volume and rate read from the snapshot and the timer starts at 0.
PlayStart(len) ==
    /\ pc = "acquiring"
    /\ current_samples' = Samples(len * SamplesPerUnit)
    /\ current_sink' = NewSink(len * SamplesPerUnit, state.volume,
                               state.playback_rate)
    /\ position_timer' = TimerStart(position_timer, 0, state.playback_rate)
    /\ last_position_update' = 0
    /\ pc' = "play_write"
    /\ UNCHANGED <<state, command_rx, state_change, command, pos_local,
                   prior_engine, play_failed>>
    /\ live_sinks' = live_sinks + 1
    /\ apiUnchanged

\* What a started Play writes to the snapshot.
PlayStarted(st) ==
    [st EXCEPT !.is_loading = FALSE, !.is_playing = TRUE,
               !.current_position = 0]

PlayWrite ==
    /\ pc = "play_write"
    /\ state' = PlayStarted(state)
    /\ state_change' = state_change + 1
    /\ prior_engine' = NoPrior
    /\ Done
    /\ UNCHANGED <<command_rx, current_sink, current_samples,
                   position_timer, last_position_update, pos_local,
                   play_failed>>
    /\ UNCHANGED live_sinks
    /\ apiUnchanged

\* ------------------------------------------------------ AudioCommand::Seek
SeekNoBuffer ==
    /\ Dispatching("Seek")
    /\ ~current_samples.some
    /\ Done
    /\ UNCHANGED <<state, command_rx, state_change, current_sink,
                   current_samples, position_timer, last_position_update,
                   pos_local, prior_engine, play_failed>>
    /\ UNCHANGED live_sinks
    /\ apiUnchanged

\* Mutant: a seek to the end also publishes the position.
SeekAtEndWritesPosition ==
    /\ Dispatching("Seek")
    /\ current_samples.some
    /\ SampleIndex(command.val, current_samples.len) = current_samples.len
    /\ current_sink' = NoSink
    /\ state' = [state EXCEPT !.current_position = command.val]
    /\ state_change' = state_change + 1
    /\ Done
    /\ UNCHANGED <<command_rx, current_samples, position_timer,
                   last_position_update, pos_local, prior_engine,
                   play_failed>>
    /\ live_sinks' = StopAndDiscard(current_sink, live_sinks)
    /\ apiUnchanged

\* The remaining slice is empty: the sink is gone, nothing else happens.
SeekAtEnd ==
    /\ Dispatching("Seek")
    /\ current_samples.some
    /\ SampleIndex(command.val, current_samples.len) = current_samples.len
    /\ current_sink' = NoSink
    /\ Done
    /\ UNCHANGED <<state, command_rx, state_change, current_samples,
                   position_timer, last_position_update, pos_local,
                   prior_engine, play_failed>>
    /\ live_sinks' = StopAndDiscard(current_sink, live_sinks)
    /\ apiUnchanged

\* Sink::try_new fails.
SeekSinkFails ==
    /\ Dispatching("Seek")
    /\ current_samples.some
    /\ SampleIndex(command.val, current_samples.len) < current_samples.len
    /\ current_sink' = NoSink
    /\ Done
    /\ UNCHANGED <<state, command_rx, state_change, current_samples,
                   position_timer, last_position_update, pos_local,
                   prior_engine, play_failed>>
    /\ live_sinks' = StopAndDiscard(current_sink, live_sinks)
    /\ apiUnchanged

\* A new sink plays the remaining slice; the timer restarts at `position`.
SeekStart ==
    /\ Dispatching("Seek")
    /\ current_samples.some
    /\ SampleIndex(command.val, current_samples.len) < current_samples.len
    /\ current_sink' =
         NewSink(current_samples.len
                   - SampleIndex(command.val, current_samples.len),
                 state.volume, state.playback_rate)
    /\ position_timer' = TimerStart(position_timer, command.val,
                                    state.playback_rate)
    /\ last_position_update' = 0
    /\ pc' = "seek_write"
    /\ UNCHANGED <<state, command_rx, state_change, command,
                   current_samples, pos_local, prior_engine, play_failed>>
    /\ live_sinks' = StopAndDiscard(current_sink, live_sinks) + 1
    /\ apiUnchanged

\* What a started Seek writes to the snapshot.
SeekStarted(st, position) ==
    [st EXCEPT !.current_position = position, !.is_playing = TRUE]

SeekWrite ==
    /\ pc = "seek_write"
    /\ state' = SeekStarted(state, command.val)
    /\ state_change' = state_change + 1
    /\ Done
    /\ UNCHANGED <<command_rx, current_sink, current_samples,
                   position_timer, last_position_update, pos_local,
                   prior_engine, play_failed>>
    /\ UNCHANGED live_sinks
    /\ apiUnchanged

\* ------------------------------------------- AudioCommand::TogglePlayPause
\* track_ended, from the snapshot and the timer read under the first lock.
ToggleEnded ==
    TrackEnded(TimerCurrentPosition(position_timer), state.duration,
               current_samples, current_sink)

\* is_playing: pause the sink and the timer.
TogglePauses ==
    /\ Dispatching("TogglePlayPause")
    /\ state.is_playing
    /\ current_sink.some
    /\ current_sink' = [current_sink EXCEPT !.paused = TRUE]
    /\ position_timer' = TimerPause(position_timer)
    /\ pos_local' = TimerCurrentPosition(position_timer)
    /\ pc' = "toggle_pause_write"
    /\ UNCHANGED <<state, command_rx, state_change, command,
                   current_samples, last_position_update, prior_engine,
                   play_failed>>
    /\ UNCHANGED live_sinks
    /\ apiUnchanged

\* is_playing, and no sink to pause.
TogglePlayingNoSink ==
    /\ Dispatching("TogglePlayPause")
    /\ state.is_playing
    /\ ~current_sink.some
    /\ Done
    /\ UNCHANGED <<state, command_rx, state_change, current_sink,
                   current_samples, position_timer, last_position_update,
                   pos_local, prior_engine, play_failed>>
    /\ UNCHANGED live_sinks
    /\ apiUnchanged

\* track_ended, and no samples to restart.
ToggleEndedNoBuffer ==
    /\ Dispatching("TogglePlayPause")
    /\ ~state.is_playing
    /\ ToggleEnded
    /\ ~current_samples.some
    /\ Done
    /\ UNCHANGED <<state, command_rx, state_change, current_sink,
                   current_samples, position_timer, last_position_update,
                   pos_local, prior_engine, play_failed>>
    /\ UNCHANGED live_sinks
    /\ apiUnchanged

\* track_ended, the old sink is stopped and Sink::try_new fails.
ToggleRestartSinkFails ==
    /\ Dispatching("TogglePlayPause")
    /\ ~state.is_playing
    /\ ToggleEnded
    /\ current_samples.some
    /\ current_sink' = NoSink
    /\ Done
    /\ UNCHANGED <<state, command_rx, state_change, current_samples,
                   position_timer, last_position_update, pos_local,
                   prior_engine, play_failed>>
    /\ live_sinks' = StopAndDiscard(current_sink, live_sinks)
    /\ apiUnchanged

\* track_ended: a new sink plays all the samples, the timer restarts at 0.
ToggleRestarts ==
    /\ Dispatching("TogglePlayPause")
    /\ ~state.is_playing
    /\ ToggleEnded
    /\ current_samples.some
    /\ current_sink' = NewSink(current_samples.len, state.volume,
                               state.playback_rate)
    /\ position_timer' = TimerStart(position_timer, 0, state.playback_rate)
    /\ last_position_update' = 0
    /\ pos_local' = 0
    /\ pc' = "toggle_restart_write"
    /\ UNCHANGED <<state, command_rx, state_change, command,
                   current_samples, prior_engine, play_failed>>
    /\ live_sinks' = StopAndDiscard(current_sink, live_sinks) + 1
    /\ apiUnchanged

\* Normal resume: the sink plays on, the timer restarts at its position.
ToggleResumes ==
    /\ Dispatching("TogglePlayPause")
    /\ ~state.is_playing
    /\ ~ToggleEnded
    /\ current_sink.some
    /\ current_sink' = [current_sink EXCEPT !.paused = FALSE]
    /\ position_timer' = TimerStart(position_timer,
                                    TimerCurrentPosition(position_timer),
                                    state.playback_rate)
    /\ pos_local' = TimerCurrentPosition(position_timer)
    /\ pc' = "toggle_resume_write"
    /\ UNCHANGED <<state, command_rx, state_change, command,
                   current_samples, last_position_update, prior_engine,
                   play_failed>>
    /\ UNCHANGED live_sinks
    /\ apiUnchanged

\* Not ended, and no sink to resume.
ToggleResumeNoSink ==
    /\ Dispatching("TogglePlayPause")
    /\ ~state.is_playing
    /\ ~ToggleEnded
    /\ ~current_sink.some
    /\ Done
    /\ UNCHANGED <<state, command_rx, state_change, current_sink,
                   current_samples, position_timer, last_position_update,
                   pos_local, prior_engine, play_failed>>
    /\ UNCHANGED live_sinks
    /\ apiUnchanged

\* What the three branches write under the second lock.
ToggleWritten(st, is_playing, position) ==
    [st EXCEPT !.is_playing = is_playing, !.current_position = position]

ToggleWrite ==
    /\ pc \in {"toggle_pause_write", "toggle_restart_write",
               "toggle_resume_write"}
    /\ state' = ToggleWritten(state, pc # "toggle_pause_write", pos_local)
    /\ state_change' = state_change + 1
    /\ last_position_update' =
         IF pc = "toggle_resume_write" THEN 0 ELSE last_position_update
    /\ pos_local' = 0
    /\ Done
    /\ UNCHANGED <<command_rx, current_sink, current_samples,
                   position_timer, prior_engine, play_failed>>
    /\ UNCHANGED live_sinks
    /\ apiUnchanged

\* ----------------------------------------------------- AudioCommand::Pause
\* Mutant: Pause publishes is_playing = true.
PauseWrittenPlaying(st, position) ==
    [st EXCEPT !.is_playing = TRUE, !.current_position = position]

\* Pause: not playing, at the position the timer was paused at.
PauseWritten(st, position) ==
    [st EXCEPT !.is_playing = FALSE, !.current_position = position]

HandlePause ==
    /\ Dispatching("Pause")
    /\ current_sink.some
    /\ current_sink' = [current_sink EXCEPT !.paused = TRUE]
    /\ position_timer' = TimerPause(position_timer)
    /\ state' = PauseWritten(state, TimerCurrentPosition(position_timer))
    /\ state_change' = state_change + 1
    /\ Done
    /\ UNCHANGED <<command_rx, current_samples, last_position_update,
                   pos_local, prior_engine, play_failed>>
    /\ UNCHANGED live_sinks
    /\ apiUnchanged

HandlePauseNoSink ==
    /\ Dispatching("Pause")
    /\ ~current_sink.some
    /\ Done
    /\ UNCHANGED <<state, command_rx, state_change, current_sink,
                   current_samples, position_timer, last_position_update,
                   pos_local, prior_engine, play_failed>>
    /\ UNCHANGED live_sinks
    /\ apiUnchanged

\* ------------------------------------------------------ AudioCommand::Stop
\* What Stop writes to the snapshot.
StopWritten(st) == [st EXCEPT !.is_playing = FALSE, !.current_position = 0]

HandleStop ==
    /\ Dispatching("Stop")
    /\ current_sink' = NoSink
    /\ current_samples' = NoSamples
    /\ position_timer' = TimerStop(position_timer)
    /\ state' = StopWritten(state)
    /\ state_change' = state_change + 1
    /\ Done
    /\ UNCHANGED <<command_rx, last_position_update, pos_local,
                   prior_engine, play_failed>>
    /\ live_sinks' = StopAndDiscard(current_sink, live_sinks)
    /\ apiUnchanged

\* ------------------------------- AudioCommand::SetVolume, SetPlaybackRate
HandleSetVolume ==
    /\ Dispatching("SetVolume")
    /\ current_sink' = IF current_sink.some
                       THEN [current_sink EXCEPT !.volume = command.val]
                       ELSE current_sink
    /\ Done
    /\ UNCHANGED <<state, command_rx, state_change, current_samples,
                   position_timer, last_position_update, pos_local,
                   prior_engine, play_failed>>
    /\ UNCHANGED live_sinks
    /\ apiUnchanged

HandleSetPlaybackRate ==
    /\ Dispatching("SetPlaybackRate")
    /\ current_sink' = IF current_sink.some
                       THEN [current_sink EXCEPT !.speed = command.val]
                       ELSE current_sink
    /\ position_timer' = IF current_sink.some
                         THEN TimerSetRate(position_timer, command.val)
                         ELSE position_timer
    /\ Done
    /\ UNCHANGED <<state, command_rx, state_change, current_samples,
                   last_position_update, pos_local, prior_engine,
                   play_failed>>
    /\ UNCHANGED live_sinks
    /\ apiUnchanged

\* ------------------------------------------------------------------ time
\* One time step of wall-clock time: a running timer and a playing sink
\* advance, and the last position update is more than 500 ms old.  Time
\* that passes over a paused sink is counted once; time that passes without
\* a sink is not observable: every start of the timer resets
\* last_position_update before the loop reads it again.
CanAdvance ==
    /\ position_timer.running => position_timer.elapsed < MaxElapsed
    /\ \/ position_timer.running
       \/ current_sink.some /\ ~current_sink.paused /\ current_sink.left > 0
       \/ current_sink.some /\ current_sink.paused
            /\ last_position_update = 0

SinkAfter(s) ==
    IF s.some /\ ~s.paused
    THEN [s EXCEPT !.left = Max(0, s.left - s.speed * SamplesPerUnit)]
    ELSE s

TimePasses ==
    /\ CanAdvance
    /\ position_timer' =
         IF position_timer.running
         THEN [position_timer EXCEPT !.elapsed = position_timer.elapsed + 1]
         ELSE position_timer
    /\ current_sink' = SinkAfter(current_sink)
    /\ last_position_update' = 1
    /\ UNCHANGED <<state, command_rx, state_change, pc, command,
                   current_samples, pos_local, prior_engine, play_failed>>
    /\ UNCHANGED live_sinks
    /\ apiUnchanged

\* ------------------------------------------------------------------ Next
\* The transport calls of the API, made by the callers in C.
TransportApi(C) ==
    \/ \E c \in C, t \in Tracks : Play(c, t)
    \/ \E c \in C, p \in SeekInputs : Seek(c, p)
    \/ \E c \in C : Send(c)
    \/ \E c \in C : TogglePlayPause(c)
    \/ \E c \in C : Pause(c)
    \/ \E c \in C : Stop(c)

EngineLoop ==
    \/ EngineStart
    \/ EngineStartFails
    \/ TryRecv
    \/ EndOfTrack
    \/ PositionRead
    \/ PositionWrite

EnginePlay ==
    \/ PlayBegin
    \/ PlayAcquireFails
    \/ \E len \in AudioLengths : PlaySinkFails(len)
    \/ \E len \in AudioLengths : PlayStart(len)
    \/ PlayWrite

EngineSeek ==
    \/ SeekNoBuffer
    \/ SeekAtEnd
    \/ SeekSinkFails
    \/ SeekStart
    \/ SeekWrite

EngineToggle ==
    \/ TogglePauses
    \/ TogglePlayingNoSink
    \/ ToggleEndedNoBuffer
    \/ ToggleRestartSinkFails
    \/ ToggleRestarts
    \/ ToggleResumes
    \/ ToggleResumeNoSink
    \/ ToggleWrite

EnginePauseStop ==
    \/ HandlePause
    \/ HandlePauseNoSink
    \/ HandleStop

\* Every step of the audio thread.
EngineNext ==
    \/ EngineLoop
    \/ EnginePlay
    \/ EngineSeek
    \/ EngineToggle
    \/ EnginePauseStop
    \/ HandleSetVolume
    \/ HandleSetPlaybackRate

\* One caller drives the transport and the playback rate.
Next ==
    \/ TransportApi({"c1"})
    \/ \E r \in {0, 9} : SetPlaybackRate("c1", r)
    \/ EngineLoop
    \/ EnginePlay
    \/ EngineSeek
    \/ EngineToggle
    \/ EnginePauseStop
    \/ HandleSetPlaybackRate
    \/ TimePasses

Spec == Init /\ [][Next]_vars

\* Two concurrent callers play track A and change volume and rate, all
\* within one time step.
NextSettings ==
    \/ \E c \in Callers : Play(c, "A")
    \/ \E c \in Callers, v \in VolumeInputs : SetVolume(c, v)
    \/ \E c \in Callers, r \in RateInputs : SetPlaybackRate(c, r)
    \/ \E c \in Callers : Send(c)
    \/ EngineStart
    \/ EngineStartFails
    \/ TryRecv
    \/ EnginePlay
    \/ HandleSetVolume
    \/ HandleSetPlaybackRate

SpecSettings == Init /\ [][NextSettings]_vars

\* The app handle is set and the watcher polls while one caller plays
\* track A, pauses and changes the volume, all within one time step.
NextWatcher ==
    \/ SetAppHandle
    \/ WatcherPoll
    \/ WatcherClone
    \/ WatcherEmit
    \/ Play("c1", "A")
    \/ \E v \in VolumeInputs : SetVolume("c1", v)
    \/ Pause("c1")
    \/ Send("c1")
    \/ Emit("c1")
    \/ EngineStart
    \/ TryRecv
    \/ EnginePlay
    \/ HandlePause
    \/ HandlePauseNoSink
    \/ HandleSetVolume

SpecWatcher == Init /\ [][NextWatcher]_vars

\* The watcher task once spawned, the audio thread, and a call in progress.
WatcherSteps == WatcherPoll \/ WatcherClone \/ WatcherEmit
EventEngine == EngineStart \/ TryRecv \/ EnginePlay \/ HandleSetVolume
CallSteps == Send("c1") \/ Emit("c1")

\* The app handle is set first; then one caller plays track A and changes
\* the volume while the watcher polls.  The watcher task, the audio thread
\* and a call in progress keep running.
NextEvents ==
    \/ SetAppHandle
    \/ WatcherSteps
    \/ app_handle /\ Play("c1", "A")
    \/ app_handle /\ SetVolume("c1", 1)
    \/ CallSteps
    \/ EventEngine

SpecEvents ==
    /\ Init
    /\ [][NextEvents]_vars
    /\ WF_vars(SetAppHandle)
    /\ WF_vars(WatcherSteps)
    /\ WF_vars(CallSteps)
    /\ WF_vars(EventEngine)

\* One caller plays the long track, pauses and toggles, while time passes.
NextPause ==
    \/ Play("c1", LongTrack)
    \/ TogglePlayPause("c1")
    \/ Pause("c1")
    \/ Send("c1")
    \/ EngineLoop
    \/ EnginePlay
    \/ EngineToggle
    \/ HandlePause
    \/ HandlePauseNoSink
    \/ TimePasses

SpecPause == Init /\ [][NextPause]_vars

\* One caller plays track A, seeks and pauses, while time passes.
NextSeek ==
    \/ Play("c1", "A")
    \/ \E p \in SeekInputs : Seek("c1", p)
    \/ Pause("c1")
    \/ Send("c1")
    \/ EngineLoop
    \/ EnginePlay
    \/ EngineSeek
    \/ HandlePause
    \/ HandlePauseNoSink
    \/ TimePasses

SpecSeek == Init /\ [][NextSeek]_vars

\* One caller plays track A, seeks, toggles and changes volume and rate,
\* while time passes.
NextConfigure ==
    \/ Play("c1", "A")
    \/ Seek("c1", 2)
    \/ TogglePlayPause("c1")
    \/ SetVolume("c1", 1)
    \/ SetPlaybackRate("c1", 9)
    \/ Send("c1")
    \/ EngineLoop
    \/ EnginePlay
    \/ EngineSeek
    \/ EngineToggle
    \/ HandleSetVolume
    \/ HandleSetPlaybackRate
    \/ TimePasses

SpecConfigure == Init /\ [][NextConfigure]_vars

\* One caller plays, pauses and stops within one time step; acquisitions
\* and sink creations may fail.
EngineLive ==
    \/ EngineStart
    \/ TryRecv
    \/ EnginePlay
    \/ EnginePauseStop

NextLive ==
    \/ \E t \in Tracks : Play("c1", t)
    \/ Send("c1")
    \/ Pause("c1")
    \/ Stop("c1")
    \/ EngineLive

\* The audio thread is an operating-system thread of its own that polls
\* every 50 ms, and every acquisition terminates: a step of the thread that
\* stays possible is eventually taken.
SpecLive == Init /\ [][NextLive]_vars /\ WF_vars(EngineLive)


\* =========================================================================
\* Claims
\* =========================================================================

\* clamp(x, lo, hi) as the specification states it.
Clamp(x, lo, hi) == IF x < lo THEN lo ELSE IF x > hi THEN hi ELSE x

\* The step in which caller c's call `op` sends its command.
Sends(c, op) ==
    api[c].pc = "send" /\ api[c].op = op /\ api'[c].pc = "idle"

\* C1: whenever the engine finishes handling Play(T) after a successful
\* acquisition, the snapshot has duration = T.duration, current_position = 0,
\* is_playing = true and is_loading = false, whatever API calls interleave.
C1_PlayPublishesItsTrack ==
    [][PlayWrite =>
        /\ state'.duration = TrackDuration(command.track)
        /\ state'.current_position = 0
        /\ state'.is_playing
        /\ ~state'.is_loading]_vars

\* C2: when the acquisition of a Play command fails, the sink, the retained
\* samples and the timer are what they were before the command was handled.
C2_FailedPlayKeepsEngine ==
    [][PlayAcquireFails =>
        /\ current_sink' = prior_engine.sink
        /\ current_samples' = prior_engine.samples
        /\ position_timer'.running = prior_engine.timer.running
        /\ position_timer'.start_position = prior_engine.timer.start_position
        /\ position_timer'.playback_rate = prior_engine.timer.playback_rate]_vars

\* C3: after a Play command failed in acquisition, and until another command
\* is dequeued, no step of the engine writes the snapshot or raises a change
\* notification.
C3_SilentAfterFailedPlay ==
    [][(play_failed /\ play_failed' /\ EngineNext) =>
        UNCHANGED <<state, state_change>>]_vars

\* C4: play(track) sets current_track, is_loading = true, is_playing = false,
\* current_position = 0 and duration = track.duration in one lock scope,
\* leaving volume and playback_rate as they were, and then enqueues exactly
\* one Play(track) command (the send succeeds while the receiver exists).
C4_PlayCall ==
    [][\A c \in Callers :
        /\ (\E t \in Tracks : Play(c, t)) =>
             /\ state' = [state EXCEPT
                            !.current_track = api'[c].track,
                            !.is_loading = TRUE,
                            !.is_playing = FALSE,
                            !.current_position = 0,
                            !.duration = TrackDuration(api'[c].track)]
             /\ command_rx' = command_rx
        /\ (Sends(c, "Play") /\ rx_alive) =>
             /\ command_rx' =
                  Append(command_rx, Cmd("Play", api[c].track, 0))
             /\ state' = state]_vars

\* A play() call has returned Ok with its Play command last in the queue,
\* after the playback rate was changed from its default.
C4_Witness ==
    \E c \in Callers :
        /\ api[c].op = "Play" /\ api[c].pc = "idle" /\ api[c].ret = "ok"
        /\ state.playback_rate # DefaultRate
        /\ state.is_loading /\ state.current_track = api[c].track
        /\ command_rx # << >>
        /\ command_rx[Len(command_rx)] = Cmd("Play", api[c].track, 0)

\* C5: set_volume(v) stores clamp(v, 0, 1) in the snapshot and enqueues
\* SetVolume with that same value; the stored volume is always in [0, 1].
C5_SetVolumeClamps ==
    /\ [](VolMin <= state.volume /\ state.volume <= VolMax)
    /\ [][\A c \in Callers :
           /\ \A v \in VolumeInputs :
                SetVolume(c, v) =>
                  /\ state'.volume = Clamp(v, VolMin, VolMax)
                  /\ api'[c].val = Clamp(v, VolMin, VolMax)
           /\ (Sends(c, "SetVolume") /\ rx_alive) =>
                command_rx' =
                  Append(command_rx, Cmd("SetVolume", NoTrack, api[c].val))
          ]_vars

\* A set_volume call with a volume below the range has returned Ok: the
\* snapshot and the queued command hold the lower limit.
C5_Witness ==
    \E c \in Callers :
        /\ api[c].op = "SetVolume" /\ api[c].pc = "idle"
        /\ api[c].ret = "ok"
        /\ state.volume = VolMin
        /\ command_rx # << >>
        /\ command_rx[Len(command_rx)] = Cmd("SetVolume", NoTrack, VolMin)

\* C6: set_playback_rate(r) stores clamp(r, 0.25, 2.0) in the snapshot and
\* enqueues SetPlaybackRate with that same value; the stored rate is always
\* in [0.25, 2.0].
C6_SetPlaybackRateClamps ==
    /\ [](RateMin <= state.playback_rate /\ state.playback_rate <= RateMax)
    /\ [][\A c \in Callers :
           /\ \A r \in RateInputs :
                SetPlaybackRate(c, r) =>
                  /\ state'.playback_rate = Clamp(r, RateMin, RateMax)
                  /\ api'[c].val = Clamp(r, RateMin, RateMax)
           /\ (Sends(c, "SetPlaybackRate") /\ rx_alive) =>
                command_rx' =
                  Append(command_rx,
                         Cmd("SetPlaybackRate", NoTrack, api[c].val))
          ]_vars

\* A set_playback_rate call with a rate above the range has returned Ok:
\* the snapshot and the queued command hold the upper limit.
C6_Witness ==
    \E c \in Callers :
        /\ api[c].op = "SetPlaybackRate" /\ api[c].pc = "idle"
        /\ api[c].ret = "ok"
        /\ state.playback_rate = RateMax
        /\ command_rx # << >>
        /\ command_rx[Len(command_rx)] =
             Cmd("SetPlaybackRate", NoTrack, RateMax)

\* C7: seek(p) enqueues Seek(clamp(p, 0, d)), d being the duration in the
\* snapshot when the call reads it, and does not modify the snapshot.
C7_SeekClamps ==
    [][\A c \in Callers :
        /\ \A p \in SeekInputs :
             Seek(c, p) =>
               /\ api'[c].val = Clamp(p, 0, state.duration)
               /\ state' = state
        /\ (Sends(c, "Seek") /\ rx_alive) =>
             /\ command_rx' =
                  Append(command_rx, Cmd("Seek", NoTrack, api[c].val))
             /\ state' = state]_vars

\* A seek past the end of track A has returned Ok: the queued Seek holds the
\* duration of the track.
C7_Witness ==
    \E c \in Callers :
        /\ api[c].op = "Seek" /\ api[c].pc = "idle" /\ api[c].ret = "ok"
        /\ state.duration = TrackDuration("A")
        /\ command_rx # << >>
        /\ command_rx[Len(command_rx)] =
             Cmd("Seek", NoTrack, TrackDuration("A"))

\* C8: with samples retained, once the engine has handled the Seek that
\* seek(x) produced, x in [0, duration], the snapshot's current_position is
\* x, also when x is at or after the end of the decoded samples.
C8_SeekRoundTrip ==
    [][((SeekAtEnd \/ SeekWrite) /\ command.val <= state.duration) =>
        state'.current_position = command.val]_vars

\* C9: when a sink exists and is empty while the timer runs, the engine's
\* next loop iteration stops the timer, sets is_playing = false and
\* current_position = duration, clears the sink, keeps the samples and
\* raises one change notification.
C9_NaturalEnd ==
    [][/\ (TryRecv /\ EndOfTrackCond(current_sink, position_timer)) =>
            pc' = "end_check"
       /\ EndOfTrack =>
            /\ EndOfTrackCond(current_sink, position_timer)
            /\ ~position_timer'.running
            /\ ~state'.is_playing
            /\ state'.current_position = state'.duration
            /\ state'.duration = state.duration
            /\ ~current_sink'.some
            /\ current_samples' = current_samples
            /\ current_samples'.some
            /\ state_change' = state_change + 1]_vars

\* The track has ended before its descriptor's duration: the decoded audio
\* is shorter, the position is the duration, the sink is gone and the
\* samples are retained.
C9_Witness ==
    /\ pc = "recv"
    /\ ~state.is_playing
    /\ state.duration > 0
    /\ state.current_position = state.duration
    /\ current_samples.some
    /\ current_samples.len < state.duration * SamplesPerUnit
    /\ ~current_sink.some
    /\ ~position_timer.running
    /\ position_timer.start_position = 0
    /\ state_change >= 2

\* C10: TogglePlayPause handled while the snapshot is not playing and the
\* track is ended restarts the retained samples from sample 0: a new sink,
\* the timer restarted at 0, then is_playing = true and current_position = 0
\* in the snapshot (Sink::try_new not failing).
C10_ToggleRestartsEndedTrack ==
    [][/\ (/\ EngineToggle
           /\ Dispatching("TogglePlayPause")
           /\ ~state.is_playing
           /\ ToggleEnded
           /\ ~ToggleRestartSinkFails) =>
            /\ current_sink'.some
            /\ current_sink'.left = current_samples.len
            /\ position_timer'.running
            /\ position_timer'.start_position = 0
            /\ pc' = "toggle_restart_write"
       /\ (ToggleWrite /\ pc = "toggle_restart_write") =>
            /\ state'.is_playing
            /\ state'.current_position = 0]_vars

\* The loop steps that handle no command, and the passing of time.
IdleTick == TryRecv \/ EndOfTrack \/ PositionRead \/ PositionWrite
              \/ TimePasses

\* C11: when the engine handles Pause, or the pause branch of
\* TogglePlayPause, with a sink, is_playing becomes false and
\* current_position the timer position of that instant, at which the timer
\* stays; while the sink is paused no tick of the loop and no passing of time
\* changes the snapshot, the timer or the sink; a second Pause changes none
\* of them.
C11_PauseFreezesPosition ==
    [][/\ HandlePause =>
            /\ ~state'.is_playing
            /\ state'.current_position = TimerCurrentPosition(position_timer)
            /\ ~position_timer'.running
            /\ TimerCurrentPosition(position_timer') = state'.current_position
       /\ TogglePauses =>
            /\ ~position_timer'.running
            /\ TimerCurrentPosition(position_timer')
                 = TimerCurrentPosition(position_timer)
       /\ (ToggleWrite /\ pc = "toggle_pause_write") =>
            /\ ~state'.is_playing
            /\ state'.current_position = TimerCurrentPosition(position_timer)
            /\ position_timer' = position_timer
       /\ (current_sink.some /\ current_sink.paused /\ IdleTick) =>
            /\ state' = state
            /\ position_timer' = position_timer
            /\ current_sink' = current_sink
            /\ state_change' = state_change
       /\ (HandlePause /\ current_sink.paused) =>
            /\ position_timer' = position_timer
            /\ current_sink' = current_sink
            /\ (~state.is_playing /\ state.current_position
                  = TimerCurrentPosition(position_timer)) => state' = state
      ]_vars

\* Play, Pause and a second Pause have been handled and time has passed
\* since: the sink is paused and the snapshot holds the position, after the
\* start of the track, at which the timer was paused.
C11_Witness ==
    /\ pc = "recv" /\ command_rx = << >> /\ calls = 3
    /\ api["c1"].op = "Pause" /\ api["c1"].ret = "ok"
    /\ current_sink.some /\ current_sink.paused
    /\ ~position_timer.running
    /\ last_position_update = 1
    /\ ~state.is_playing
    /\ state.current_position > 0
    /\ state.current_position = TimerCurrentPosition(position_timer)

\* The positions of the audio thread at which it holds a dequeued command
\* and is handling it.
HandlerPcs == {"dispatch", "acquiring", "play_write", "seek_write",
               "toggle_pause_write", "toggle_restart_write",
               "toggle_resume_write"}

\* C12: once the engine runs, commands are dispatched in the order of their
\* submission, none dropped and none handled twice: a send puts its command
\* behind all queued ones, the engine dequeues only the oldest command and
\* only when it holds none, keeps it until its handler has run, and runs the
\* handler once.
C12_FifoDispatch ==
    /\ [](pc = "recv" => command = NoCommand)
    /\ [][pc # "start" =>
           /\ command_rx' # command_rx =>
                \/ /\ command' = command
                   /\ \E c \in Callers :
                        command_rx' =
                          Append(command_rx,
                                 Cmd(api'[c].op, api'[c].track, api'[c].val))
                \/ /\ pc = "recv"
                   /\ command_rx # << >>
                   /\ command' = Head(command_rx)
                   /\ command_rx' = Tail(command_rx)
           /\ (command = NoCommand /\ command' # NoCommand) =>
                /\ command_rx # << >>
                /\ command' = Head(command_rx)
                /\ command_rx' = Tail(command_rx)
           /\ (command # NoCommand /\ command' # command) =>
                /\ pc \in HandlerPcs
                /\ command' = NoCommand
                /\ pc' = "recv"
           /\ (pc \in HandlerPcs /\ pc' = "dispatch") =>
                /\ pc = "dispatch"
                /\ command' = command
          ]_vars

\* Play has been handled and the set_volume submitted after it is being
\* dispatched while a command submitted later still waits in the queue.
C12_Witness ==
    /\ pc = "dispatch"
    /\ command = Cmd("SetVolume", NoTrack, VolMin)
    /\ current_sink.some /\ state.is_playing
    /\ Len(command_rx) = 1
    /\ command_rx[1].op = "SetPlaybackRate"

\* The steps that end an acquisition: it fails, or it returns the audio and
\* the sink is or is not created.
AcquisitionEnds ==
    \/ PlayAcquireFails
    \/ \E len \in AudioLengths : PlaySinkFails(len)
    \/ \E len \in AudioLengths : PlayStart(len)

\* C13: while the engine is acquiring a track for Play, every step either
\* ends that acquisition or leaves the engine in it, holding the same Play
\* command, with its sink and samples untouched and the queue at most
\* longer at its back: no command is dequeued or dispatched and the
\* acquisition is not cancelled.
C13_AcquisitionBlocksDispatch ==
    [][pc = "acquiring" =>
         /\ command.op = "Play"
         /\ \/ /\ AcquisitionEnds
               /\ pc' \in {"recv", "play_write"}
               /\ command_rx' = command_rx
            \/ /\ pc' = "acquiring"
               /\ command' = command
               /\ current_sink' = current_sink
               /\ current_samples' = current_samples
               /\ Len(command_rx') >= Len(command_rx)
               /\ SubSeq(command_rx', 1, Len(command_rx)) = command_rx
      ]_vars

\* Two commands submitted after play() wait in the queue while the engine
\* acquires the track.
C13_Witness ==
    /\ pc = "acquiring"
    /\ command.op = "Play"
    /\ Len(command_rx) = 2
    /\ command_rx[1].op = "Seek"
    /\ command_rx[2].op = "Stop"

\* C14: a position written to the snapshot while it is playing is not below
\* the position it replaces, unless the write is that of a seek (pauses and
\* natural end leave the snapshot not playing; a rate change writes no
\* position).
C14_MonotonicWhilePlaying ==
    [][(state.is_playing /\ state'.is_playing /\ ~SeekWrite) =>
         state'.current_position >= state.current_position]_vars

\* C15: a poll of the watcher leaves no notification pending: the
\* notifications the engine raised since the previous poll are answered by
\* the one event this poll emits, and the polls after it emit nothing until
\* the engine raises another notification.
C15_BurstCoalesced ==
    [][WatcherPoll => state_change' = 0]_vars

\* The step in which caller c's call returns.
Returns(c) ==
    \/ api[c].pc # "idle" /\ api'[c].pc = "idle"
    \/ /\ calls' # calls
       /\ TogglePlayPause(c) \/ Pause(c) \/ Stop(c)

\* C16: the receiver of the command channel is gone exactly when the engine
\* thread has terminated, and every call returns an error if the thread has
\* terminated when it sends its command, and Ok if the thread is alive then.
C16_ErrorsIffEngineDead ==
    [][/\ rx_alive <=> pc # "dead"
       /\ rx_alive' <=> pc' # "dead"
       /\ \A c \in Callers :
            Returns(c) =>
              /\ api'[c].ret = IF pc = "dead" THEN "err" ELSE "ok"
              /\ pc = "dead" => command_rx' = command_rx
      ]_vars

\* The output device could not be opened; three calls made after that have
\* returned, the last one, set_playback_rate, with an error.
C16_Witness ==
    /\ pc = "dead"
    /\ calls = 3
    /\ api["c1"].op = "SetPlaybackRate"
    /\ api["c1"].pc = "idle"
    /\ api["c1"].ret = "err"
    /\ command_rx = << >>
    /\ state = [AudioStateDefault EXCEPT !.playback_rate = RateMax]

\* The audio thread is in its loop.
EngineRunning == pc \notin {"start", "dead"}

\* C17: once in its loop the audio thread never leaves it, whatever fails,
\* and whenever a command is queued or held, also after a failed
\* acquisition or a failed sink creation, the thread gets to the point
\* where every command has been dequeued and handled.
C17_EngineKeepsHandling ==
    /\ [][EngineRunning => EngineRunning']_vars
    /\ (EngineRunning /\ (command_rx # << >> \/ command # NoCommand))
         ~> (EngineRunning /\ command_rx = << >> /\ command = NoCommand)

\* The sink could not be created for a Play, which left the samples without
\* a sink and the snapshot loading; the Stop submitted after it waits in the
\* queue.
C17_Witness ==
    /\ pc = "recv"
    /\ current_samples.some /\ ~current_sink.some
    /\ state.is_loading
    /\ command_rx = <<Cmd("Stop", NoTrack, 0)>>

\* C18: at most one sink is alive at any time, and it is the one the engine
\* holds: Play, Seek and the restart branch of TogglePlayPause stop and
\* discard the sink they find before they create the new one.
C18_AtMostOneSink ==
    /\ live_sinks <= 1
    /\ live_sinks = IF current_sink.some THEN 1 ELSE 0

\* A Seek handled while the snapshot was playing has replaced the sink by
\* one that plays the rest of the samples, and has not written the snapshot
\* yet.
C18_Witness ==
    /\ pc = "seek_write"
    /\ state.is_playing
    /\ state.current_position > 0
    /\ current_sink.some
    /\ current_sink.left < current_samples.len
    /\ live_sinks = 1

\* C19: the retained samples change only while the engine handles a Play or
\* a Stop command: no other command, no natural end and no idle tick clears
\* or replaces them, and only a Play command starts an acquisition.
C19_SamplesKeptExceptPlayStop ==
    [][/\ current_samples' # current_samples =>
            /\ pc \in {"dispatch", "acquiring"}
            /\ command.op \in {"Play", "Stop"}
       /\ (pc' = "acquiring" /\ pc # "acquiring") => command.op = "Play"
       /\ (EndOfTrack \/ EngineSeek \/ EngineToggle \/ HandlePause
             \/ HandleSetPlaybackRate \/ IdleTick) =>
            current_samples' = current_samples
      ]_vars

\* A track that ended by itself has been restarted by TogglePlayPause from
\* the retained samples: the new sink holds all of them, and the snapshot
\* still shows the ended track.
C19_Witness ==
    /\ pc = "toggle_restart_write"
    /\ ~state.is_playing
    /\ state.duration > 0
    /\ state.current_position = state.duration
    /\ current_samples.some
    /\ current_sink.some
    /\ current_sink.left = current_samples.len
    /\ position_timer.running

\* C20: a toggle_play_pause(), pause() or stop() call only enqueues its
\* command: over the call the snapshot is unchanged, no notification is
\* raised, no event is emitted and the engine's state is untouched; the
\* command is appended if the receiver exists.
C20_SendOnlyCalls ==
    [][\A c \in Callers :
         (/\ calls' # calls
          /\ TogglePlayPause(c) \/ Pause(c) \/ Stop(c)) =>
            /\ state' = state
            /\ state_change' = state_change
            /\ last_event' = last_event
            /\ UNCHANGED engineVars
    /\ UNCHANGED lockVars
    /\ UNCHANGED managerVars
            /\ api'[c].op \in {"TogglePlayPause", "Pause", "Stop"}
            /\ command_rx' = IF rx_alive
                             THEN Append(command_rx,
                                         Cmd(api'[c].op, NoTrack, 0))
                             ELSE command_rx
      ]_vars

\* stop() has returned Ok and its command waits in the queue: the snapshot
\* still shows the track playing at a position after its start.
C20_Witness ==
    /\ api["c1"].op = "Stop"
    /\ api["c1"].pc = "idle"
    /\ api["c1"].ret = "ok"
    /\ command_rx # << >>
    /\ command_rx[Len(command_rx)] = Cmd("Stop", NoTrack, 0)
    /\ state.is_playing
    /\ state.current_position > 0
    /\ current_sink.some

\* ---------------------------------------------------------------------
\* Lock discipline.  The same code seen at the level of its mutexes: each
\* task is the sequence of lock operations, accesses under a lock and
\* blocking operations that its code performs, in program order.
\* ---------------------------------------------------------------------

Acq(l) == [op |-> "acq", arg |-> l]
Rel(l) == [op |-> "rel", arg |-> l]
Access(l) == [op |-> "access", arg |-> l]
Blocking(what) == [op |-> "block", arg |-> what]
IfHandle == [op |-> "if_handle", arg |-> "app_handle"]
SetHandle == [op |-> "set_handle", arg |-> "app_handle"]
SpawnWatcher == [op |-> "spawn", arg |-> "watcher"]

\* One scope of the snapshot lock: taken, the snapshot read or written,
\* released.
StateScope == <<Acq("state"), Access("state"), Rel("state")>>

\* get_state(): lock, clone, unlock.
GetStateOps == StateScope

\* emit_state_change() once it holds the app-handle lock: with a handle it
\* also takes the snapshot lock, emits, and releases both in reverse order.
EmitWithHandleOps ==
    <<Acq("state"), Access("state"), Rel("state"), Rel("app_handle")>>

EmitNoHandleOps == <<Rel("app_handle")>>

\* play(): the optimistic write in its own scope, then emit_state_change().
PlayCallOps == StateScope \o <<Acq("app_handle"), IfHandle>>

\* set_app_handle(): store the handle under its lock, spawn the watcher.
SetAppHandleOps ==
    <<Acq("app_handle"), SetHandle, Rel("app_handle"), SpawnWatcher>>

\* One round of the watcher: poll the receiver under its lock, clone the
\* snapshot under the snapshot lock if there was a notification, sleep.
WatcherOps(has_change) ==
    <<Acq("state_change_rx"), Access("state_change_rx"),
      Rel("state_change_rx")>>
    \o (IF has_change THEN StateScope ELSE << >>)
    \o <<Blocking("sleep")>>

\* The engine's end-of-track write.
EndOfTrackOps == StateScope

\* The engine's periodic position update: the duration read and the
\* position write are two scopes.
PositionUpdateOps == StateScope \o StateScope

\* No command: the engine sleeps 50 ms.
SleepOps == <<Blocking("sleep")>>

\* Mutant: the Play arm takes the snapshot lock before the acquisition.
PlayArmOpsLockedAcquisition(started) ==
    <<Acq("state"), Blocking("io"), Access("state"), Rel("state")>>
    \o (IF started THEN StateScope ELSE << >>)

\* The Play arm: the acquisition with no lock held, then, if a sink was
\* started, the settings read and the state write.
PlayArmOps(started) ==
    <<Blocking("io")>>
    \o (IF started THEN StateScope \o StateScope ELSE << >>)

\* The Seek arm: nothing, or the settings read and the state write.
SeekArmOps(started) == IF started THEN StateScope \o StateScope ELSE << >>

\* The TogglePlayPause arm: the read scope, then at most one write.
ToggleArmOps(written) ==
    StateScope \o (IF written THEN StateScope ELSE << >>)

\* The Pause arm: one write if there is a sink.
PauseArmOps(written) == IF written THEN StateScope ELSE << >>

\* The Stop arm: one write.
StopArmOps == StateScope

\* SetVolume and SetPlaybackRate touch the sink only.
SetArmOps == << >>

\* What one iteration of the engine loop does after try_recv.
EngineArms ==
    {SleepOps, StopArmOps, SetArmOps}
    \cup {PlayArmOps(b) : b \in BOOLEAN}
    \cup {SeekArmOps(b) : b \in BOOLEAN}
    \cup {ToggleArmOps(b) : b \in BOOLEAN}
    \cup {PauseArmOps(b) : b \in BOOLEAN}

EngineIterationOps(ended, update, arm) ==
    (IF ended THEN EndOfTrackOps ELSE << >>)
    \o (IF update THEN PositionUpdateOps ELSE << >>)
    \o arm

oldVars == <<state, command_rx, rx_alive, state_change, api, calls, pc,
             command, current_sink, current_samples, position_timer,
             last_position_update, pos_local, prior_engine, play_failed,
             live_sinks, watcher, last_event, current_state>>

\* A task can take its next step unless it waits for a mutex that is held.
CanStep(p) ==
    /\ todo[p] # << >>
    /\ Head(todo[p]).op = "acq" => locks[Head(todo[p]).arg] = NoHolder

\* An API call starts.
LockBegin(p) ==
    /\ todo[p] = << >>
    /\ \/ /\ p = "get_state"
          /\ todo' = [todo EXCEPT ![p] = GetStateOps]
       \/ /\ p = "play"
          /\ todo' = [todo EXCEPT ![p] = PlayCallOps]
       \/ /\ p = "set_app_handle"
          /\ ~app_handle
          /\ todo' = [todo EXCEPT ![p] = SetAppHandleOps]
    /\ UNCHANGED <<locks, app_handle>>
    /\ UNCHANGED oldVars
    /\ UNCHANGED managerVars

\* The engine starts an iteration of its loop.
EngineIteration ==
    /\ todo["engine"] = << >>
    /\ \E ended \in BOOLEAN, update \in BOOLEAN, arm \in EngineArms :
          /\ EngineIterationOps(ended, update, arm) # << >>
          /\ todo' = [todo EXCEPT
                 !["engine"] = EngineIterationOps(ended, update, arm)]
    /\ UNCHANGED <<locks, app_handle>>
    /\ UNCHANGED oldVars
    /\ UNCHANGED managerVars

\* A task performs the next operation of its code.
LockStep(p) ==
    /\ CanStep(p)
    /\ LET o == Head(todo[p])
           rest == Tail(todo[p])
       IN  \/ /\ o.op = "acq"
              /\ locks' = [locks EXCEPT ![o.arg] = p]
              /\ todo' = [todo EXCEPT ![p] = rest]
              /\ UNCHANGED app_handle
           \/ /\ o.op = "rel"
              /\ locks' = [locks EXCEPT
                     ![o.arg] = IF locks[o.arg] = p THEN NoHolder ELSE @]
              /\ todo' = [todo EXCEPT ![p] = rest]
              /\ UNCHANGED app_handle
           \/ /\ o.op = "access"
              /\ todo' = [todo EXCEPT ![p] = rest]
              /\ UNCHANGED <<locks, app_handle>>
           \/ /\ o.op = "block"
              /\ IF p = "watcher"
                    THEN \E has_change \in BOOLEAN :
                           todo' = [todo EXCEPT ![p] = WatcherOps(has_change)]
                    ELSE todo' = [todo EXCEPT ![p] = rest]
              /\ UNCHANGED <<locks, app_handle>>
           \/ /\ o.op = "set_handle"
              /\ app_handle' = TRUE
              /\ todo' = [todo EXCEPT ![p] = rest]
              /\ UNCHANGED locks
           \/ /\ o.op = "if_handle"
              /\ todo' = [todo EXCEPT ![p] =
                     IF app_handle THEN EmitWithHandleOps
                                   ELSE EmitNoHandleOps]
              /\ UNCHANGED <<locks, app_handle>>
           \/ /\ o.op = "spawn"
              /\ \E has_change \in BOOLEAN :
                     todo' = [todo EXCEPT ![p] = rest,
                                          !["watcher"] = WatcherOps(has_change)]
              /\ UNCHANGED <<locks, app_handle>>
    /\ UNCHANGED oldVars
    /\ UNCHANGED managerVars

NextLock ==
    \/ LockBegin("get_state")
    \/ LockBegin("play")
    \/ LockBegin("set_app_handle")
    \/ EngineIteration
    \/ \E p \in Tasks : LockStep(p)

\* The mutexes are fair (waiters are served in turn) and a task that can run
\* does run.
SpecLock ==
    /\ Init
    /\ [][NextLock]_vars
    /\ \A p \in Tasks : SF_vars(LockStep(p))

\* A task is inside a blocking operation: acquisition I/O or a sleep.
Blocked(p) == todo[p] # << >> /\ Head(todo[p]).op = "block"

\* C21: no task holds a mutex while it is in acquisition I/O or in a sleep,
\* the snapshot is read and written only under its lock, whenever a task has
\* something left to do some task can step (no deadlock), and a get_state()
\* that has started completes.
C21_StateLockNeverHeldAcrossBlocking ==
    /\ [](\A p \in Tasks :
            /\ Blocked(p) => \A l \in Mutexes : locks[l] # p
            /\ (todo[p] # << >> /\ Head(todo[p]).op = "access")
                   => locks[Head(todo[p]).arg] = p
            /\ todo[p] # << >> => \E q \in Tasks : CanStep(q))
    /\ (todo["get_state"] # << >>) ~> (todo["get_state"] = << >>)

\* get_state() holds the snapshot lock while the engine is in a track
\* acquisition, the watcher sleeps and play() waits for the lock.
C21_Witness ==
    /\ locks["state"] = "get_state"
    /\ Blocked("engine") /\ Head(todo["engine"]).arg = "io"
    /\ Blocked("watcher")
    /\ locks["app_handle"] = "play"
    /\ todo["play"] # << >> /\ Head(todo["play"]).op = "acq"

\* C22: when SetPlaybackRate(r2) is handled while a sink plays and the timer
\* runs at position p, the timer still runs and reads p right afterwards,
\* now at rate r2; and every time step over a running timer adds the step
\* times the timer's rate to its position, so that t steps later it reads
\* p + t * r2.
C22_RateChangeContinuous ==
    [][/\ (pc = "dispatch" /\ command.op = "SetPlaybackRate"
             /\ current_sink.some /\ position_timer.running
             /\ HandleSetPlaybackRate) =>
            /\ position_timer'.running
            /\ TimerCurrentPosition(position_timer')
                 = TimerCurrentPosition(position_timer)
            /\ position_timer'.playback_rate = command.val
            /\ current_sink'.speed = command.val
       /\ (position_timer.running /\ pc' = pc
             /\ position_timer' # position_timer /\ TimePasses) =>
            TimerCurrentPosition(position_timer')
              = TimerCurrentPosition(position_timer)
                  + position_timer.playback_rate
      ]_vars

\* After play and set_playback_rate(2.0): the rate was changed one time step
\* (2 s) into the track, and one more step has passed since: the timer reads
\* 2 s + 2 s * 2.0 = 6 s, in half seconds.
C22_Witness ==
    /\ calls = 2
    /\ position_timer.running
    /\ position_timer.start_position = 4
    /\ position_timer.playback_rate = RateMax
    /\ position_timer.elapsed = 1
    /\ TimerCurrentPosition(position_timer) = 12

\* C23: when the acquisition of a Play command fails, is_loading is true in
\* the snapshot, and is_loading goes from true to false only in the state
\* write of a Play command that succeeded: no other command, tick or call
\* resets it.
C23_LoadingStaysAfterFailure ==
    [][/\ (pc = "acquiring" /\ PlayAcquireFails) => state'.is_loading
       /\ (state.is_loading /\ ~state'.is_loading) => PlayWrite
      ]_vars

\* The engine as Stop leaves it: no sink, no retained samples, the timer
\* stopped at position 0, the snapshot not playing.
Stopped ==
    /\ ~current_sink.some
    /\ ~current_samples.some
    /\ ~position_timer.running
    /\ TimerCurrentPosition(position_timer) = 0
    /\ ~state.is_playing

\* C24: handling Stop, in any state, leaves no sink and no retained samples,
\* the timer stopped at position 0 and the snapshot with is_playing false and
\* current_position 0; that state of the engine lasts until the next command
\* is handled; and a TogglePlayPause, Pause or Seek handled in it changes
\* neither the snapshot nor the sink, the samples or the timer, and raises no
\* notification.
C24_StopResetsEverything ==
    [][/\ (pc = "dispatch" /\ command.op = "Stop" /\ pc' # pc) =>
            /\ Stopped'
            /\ state'.current_position = 0
            /\ live_sinks' = 0
       /\ (Stopped /\ pc \notin {"dispatch", "acquiring"}) => Stopped'
       /\ (Stopped /\ pc = "dispatch" /\ pc' # pc
             /\ command.op \in {"TogglePlayPause", "Pause", "Seek"}) =>
            /\ pc' = "recv"
            /\ UNCHANGED <<state, current_sink, current_samples,
                           position_timer, state_change, live_sinks>>
      ]_vars

\* Play succeeded, Stop was handled and then TogglePlayPause: the engine is
\* still as Stop left it.
C24_Witness ==
    /\ calls = 3 /\ command_rx = << >> /\ pc = "recv"
    /\ api["c1"].op = "TogglePlayPause" /\ api["c1"].pc = "idle"
    /\ state.duration > 0 /\ state_change >= 2
    /\ Stopped
    /\ state.current_position = 0

\* C25: when TogglePlayPause is handled with a paused sink, the timer stopped
\* at position p and the track not ended, the same sink plays on (no sink is
\* created or discarded), the timer runs again from exactly p at the
\* snapshot's rate, and the write that follows sets is_playing to true and
\* current_position to p, leaving the timer alone.
C25_ToggleResumesAtPausedPosition ==
    [][/\ (pc = "dispatch" /\ command.op = "TogglePlayPause" /\ pc' # pc
             /\ current_sink.some /\ current_sink.paused
             /\ ~position_timer.running /\ ~ToggleEnded) =>
            /\ pc' = "toggle_resume_write"
            /\ current_sink' = [current_sink EXCEPT !.paused = FALSE]
            /\ live_sinks' = live_sinks
            /\ current_samples' = current_samples
            /\ position_timer'.running
            /\ position_timer'.playback_rate = state.playback_rate
            /\ TimerCurrentPosition(position_timer')
                 = TimerCurrentPosition(position_timer)
            /\ pos_local' = TimerCurrentPosition(position_timer)
       /\ (pc = "toggle_resume_write" /\ pc' # pc) =>
            /\ state'.is_playing
            /\ state'.current_position = pos_local
            /\ state_change' = state_change + 1
            /\ UNCHANGED <<current_sink, position_timer, live_sinks>>
      ]_vars

\* Play, a pause 2 s into the track, and TogglePlayPause have been handled:
\* the sink plays, the timer runs from 2 s and the snapshot reads 2 s.
C25_Witness ==
    /\ calls = 3 /\ command_rx = << >> /\ pc = "recv"
    /\ api["c1"].op = "TogglePlayPause" /\ api["c1"].pc = "idle"
    /\ current_sink.some /\ ~current_sink.paused
    /\ position_timer.running
    /\ position_timer.start_position = 4 /\ position_timer.elapsed = 0
    /\ state.is_playing /\ state.current_position = 4

\* C26: handling Pause never creates or discards a sink, never leaves a sink
\* playing or the timer running that it found stopped, and never sets
\* is_playing to true; with no sink (nothing played yet, or the track ended)
\* it leaves sink, samples, timer and snapshot unchanged and raises no
\* notification.
C26_PauseNeverStartsPlayback ==
    [][(pc = "dispatch" /\ command.op = "Pause" /\ pc' # pc) =>
         /\ pc' = "recv"
         /\ live_sinks' = live_sinks
         /\ current_sink'.some = current_sink.some
         /\ current_sink.some => current_sink'.paused /\ ~state'.is_playing
         /\ state'.is_playing => state.is_playing
         /\ position_timer'.running => position_timer.running
         /\ current_samples' = current_samples
         /\ ~current_sink.some =>
              UNCHANGED <<state, current_sink, position_timer, state_change>>
      ]_vars

\* The long track was played to its end and Pause was handled afterwards:
\* no sink, the samples retained, the snapshot at the end of the track.
C26_Witness ==
    /\ calls = 2 /\ command_rx = << >> /\ pc = "recv"
    /\ api["c1"].op = "Pause" /\ api["c1"].pc = "idle"
    /\ ~current_sink.some /\ current_samples.some
    /\ ~state.is_playing
    /\ state.current_position = TrackDuration(LongTrack)

\* C27: a Seek handled with no retained samples changes neither sink, timer
\* nor snapshot and raises no notification; a Seek whose sample index is at
\* the end of the retained samples discards the sink and does nothing else:
\* no new sink, timer, snapshot and samples untouched, no notification.
C27_SeekWithoutSlice ==
    [][(pc = "dispatch" /\ command.op = "Seek" /\ pc' # pc) =>
         /\ ~current_samples.some =>
              /\ pc' = "recv"
              /\ UNCHANGED <<current_sink, current_samples, position_timer,
                             state, state_change, live_sinks>>
         /\ (/\ current_samples.some
             /\ SampleIndex(command.val, current_samples.len)
                  >= current_samples.len) =>
              /\ pc' = "recv"
              /\ ~current_sink'.some
              /\ live_sinks' = 0
              /\ UNCHANGED <<current_samples, position_timer, state,
                             state_change>>
      ]_vars

\* Track A played with 1 s of decoded audio and Seek(1.0) was handled while
\* it played: the sink is gone, the snapshot still plays at position 0 and
\* the timer still runs.
C27_Witness ==
    /\ calls = 2 /\ command_rx = << >> /\ pc = "recv"
    /\ api["c1"].op = "Seek" /\ api["c1"].pc = "idle"
    /\ current_samples.some /\ ~current_sink.some
    /\ SampleIndex(api["c1"].val, current_samples.len) = current_samples.len
    /\ state.is_playing /\ state.current_position = 0
    /\ position_timer.running

\* C28: when Seek(p) is handled with a non-empty remaining slice, a new sink
\* fed with the slice plays and the timer runs anchored at p, and the write
\* that follows sets is_playing to true and current_position to p while the
\* sink plays and the timer still reads p plus the time passed times its
\* rate.
C28_SeekEndsPlaying ==
    [][/\ (/\ pc = "dispatch" /\ command.op = "Seek" /\ pc' # pc
           /\ current_samples.some
           /\ SampleIndex(command.val, current_samples.len)
                < current_samples.len) =>
            /\ pc' = "seek_write"
            /\ current_sink'.some /\ ~current_sink'.paused
            /\ current_sink'.left = current_samples.len
                 - SampleIndex(command.val, current_samples.len)
            /\ position_timer'.running
            /\ position_timer'.start_position = command.val
            /\ position_timer'.elapsed = 0
       /\ (pc = "seek_write" /\ pc' # pc) =>
            /\ state'.is_playing
            /\ state'.current_position = command.val
            /\ current_sink'.some /\ ~current_sink'.paused
            /\ position_timer'.running
            /\ TimerCurrentPosition(position_timer')
                 = command.val + position_timer'.elapsed
                                   * position_timer'.playback_rate
      ]_vars

\* Every call has returned and every command has been handled.
Quiescent ==
    /\ command_rx = << >>
    /\ pc = "recv"
    /\ \A c \in Callers : api[c].pc = "idle"

\* C29: SetVolume and SetPlaybackRate change the sink (and, for the rate, the
\* timer) only if a sink exists and never anything else; every sink created
\* by Play, Seek or the restart branch of TogglePlayPause has the volume and
\* the rate of the snapshot of that moment, and the timer is started at that
\* rate; so once every command has been handled, an existing sink has the
\* volume and the rate of the snapshot, and so has the timer's rate.
C29_SettingsNeverLost ==
    [][/\ (pc = "dispatch" /\ pc' # pc
             /\ command.op \in {"SetVolume", "SetPlaybackRate"}) =>
            /\ pc' = "recv"
            /\ UNCHANGED <<state, state_change, current_samples, live_sinks>>
            /\ ~current_sink.some =>
                 UNCHANGED <<current_sink, position_timer>>
            /\ (current_sink.some /\ command.op = "SetVolume") =>
                 /\ current_sink'
                      = [current_sink EXCEPT !.volume = command.val]
                 /\ position_timer' = position_timer
            /\ (current_sink.some /\ command.op = "SetPlaybackRate") =>
                 /\ current_sink'
                      = [current_sink EXCEPT !.speed = command.val]
                 /\ position_timer'.playback_rate = command.val
       /\ (pc' # pc /\ pc' \in {"play_write", "seek_write",
                                "toggle_restart_write"}) =>
            /\ current_sink'.some
            /\ current_sink'.volume = state.volume
            /\ current_sink'.speed = state.playback_rate
            /\ position_timer'.running
            /\ position_timer'.playback_rate = state.playback_rate
       /\ (Quiescent' /\ current_sink'.some) =>
            /\ current_sink'.volume = state'.volume
            /\ current_sink'.speed = state'.playback_rate
            /\ position_timer'.playback_rate = state'.playback_rate
      ]_vars

\* set_volume(0.5) and set_playback_rate(2.0) were handled with no sink, and
\* then Play: the sink has volume 0.5 and speed 2.0, and the timer runs at
\* 2.0.
C29_Witness ==
    /\ calls = 3 /\ Quiescent
    /\ api["c1"].op = "Play"
    /\ current_sink.some
    /\ current_sink.volume = 1 /\ state.volume = 1
    /\ current_sink.speed = RateMax /\ state.playback_rate = RateMax
    /\ position_timer.running /\ position_timer.playback_rate = RateMax

\* C30: in every reachable state the snapshot does not have is_loading and
\* is_playing both true.
C30_NotLoadingAndPlaying == ~(state.is_loading /\ state.is_playing)

\* C31: whenever the engine is between two iterations of its loop and the
\* snapshot has is_playing true, a sink exists and the timer runs.
C31_PlayingHasSink ==
    (pc = "recv" /\ state.is_playing) =>
        (current_sink.some /\ position_timer.running)

\* C32: with a sink and any number of concurrent callers of set_volume and
\* set_playback_rate, once every call has returned and every command has
\* been handled, the sink's volume and speed and the timer's rate are the
\* volume and the playback_rate of the snapshot.
C32_ConcurrentSettingsAgree ==
    (Quiescent /\ current_sink.some) =>
        /\ current_sink.volume = state.volume
        /\ current_sink.speed = state.playback_rate
        /\ position_timer.playback_rate = state.playback_rate

\* C33: a call that returns an error because the receiver of the command
\* channel is gone leaves the snapshot as it was: neither the lock scope of
\* a call made after the receiver was dropped (such a call can only return
\* an error) nor the failing send changes it.
C33_ErrorLeavesSnapshot ==
    [][/\ (calls' # calls /\ ~rx_alive) => state' = state
       /\ \A c \in Callers :
            (api[c].pc = "send" /\ api'[c].ret = "err") => state' = state
      ]_vars

\* C34: in every reachable state the snapshot's current_position is at least
\* 0 and at most its duration.
C34_PositionWithinDuration ==
    0 <= state.current_position /\ state.current_position <= state.duration

MaxQueue == 3

\* The tracks the callers add, and the vectors they pass.
QueueTracks == {"A", "B"}
Batches == UNION {[1..n -> QueueTracks] : n \in 0..2}
Playlists == {<< >>, <<"A">>, <<"B", "A">>}
Vectors == UNION {[1..n -> QueueTracks] : n \in 0..MaxQueue}
Indices == 0..MaxQueue

\* queue[i], and queue.get(i) with NoTrack for None
Nth(q, i) == q[i + 1]
Get(q, i) == IF i >= 0 /\ i < Len(q) THEN Nth(q, i) ELSE NoTrack

\* Vec::insert(i, t), Vec::remove(i), Vec::swap(i, j)
InsertAt(q, i, t) == SubSeq(q, 1, i) \o <<t>> \o SubSeq(q, i + 1, Len(q))
RemoveAt(q, i) == SubSeq(q, 1, i) \o SubSeq(q, i + 2, Len(q))
Swap(q, i, j) ==
    [k \in 1..Len(q) |-> IF k = i + 1 THEN Nth(q, j)
                         ELSE IF k = j + 1 THEN Nth(q, i) ELSE q[k]]

\* queue.iter().position(|t| t.id == track.id): the first match, or -1 for
\* None.
Position(q, t) ==
    IF \E k \in 1..Len(q) : q[k] = t
    THEN (CHOOSE k \in 1..Len(q) :
              q[k] = t /\ \A j \in 1..(k - 1) : q[j] # t) - 1
    ELSE -1

\* slice::shuffle: every order of the same elements can come out.
Shuffles(q) ==
    {[k \in 1..Len(q) |-> q[f[k]]] :
        f \in {g \in [1..Len(q) -> 1..Len(q)] :
                   \A a, b \in 1..Len(q) : g[a] = g[b] => a = b}}

\* `if current_index >= 0 && (current_index as usize) < queue.len()
\*  { Some(queue[current_index].clone()) } else { None }`
CurrentTrack(s) == Get(s.queue, s.current_index)

add_to_queue(s, track) == [s EXCEPT !.queue = Append(@, track)]

add_to_queue_batch(s, tracks) == [s EXCEPT !.queue = @ \o tracks]

insert_next(s, track) ==
    LET insert_index == Max(s.current_index + 1, 0)
    IN  IF insert_index >= Len(s.queue)
        THEN [s EXCEPT !.queue = Append(@, track)]
        ELSE [s EXCEPT !.queue = InsertAt(@, insert_index, track)]

\* Err("Invalid queue index") leaves the state alone.
remove_from_queue(s, index) ==
    IF index >= Len(s.queue) THEN s
    ELSE [s EXCEPT !.queue = RemoveAt(@, index),
                   !.current_index =
                       IF @ >= index /\ @ > 0 THEN @ - 1 ELSE @]

clear_queue(s) == [s EXCEPT !.queue = << >>, !.current_index = -1]

play_track_at(s, index) ==
    IF index >= Len(s.queue) THEN s ELSE [s EXCEPT !.current_index = index]

\* play_next: the state it leaves and the track it returns.
play_next(s) ==
    IF s.queue = << >> THEN [state |-> s, ret |-> NoTrack]
    ELSE CASE s.repeat_mode = "One" ->
                [state |-> s, ret |-> CurrentTrack(s)]
           [] s.repeat_mode = "All" ->
                LET next == (s.current_index + 1) % Len(s.queue)
                IN  [state |-> [s EXCEPT !.current_index = next],
                     ret |-> Get(s.queue, next)]
           [] s.repeat_mode = "Off" ->
                LET next_index == s.current_index + 1
                IN  IF next_index < Len(s.queue)
                    THEN [state |-> [s EXCEPT !.current_index = next_index],
                          ret |-> Get(s.queue, next_index)]
                    ELSE [state |-> s, ret |-> NoTrack]

play_previous(s) ==
    IF s.queue = << >> THEN [state |-> s, ret |-> NoTrack]
    ELSE CASE s.repeat_mode = "One" ->
                [state |-> s, ret |-> CurrentTrack(s)]
           [] s.repeat_mode = "All" ->
                LET prev == IF s.current_index <= 0 THEN Len(s.queue) - 1
                            ELSE s.current_index - 1
                IN  [state |-> [s EXCEPT !.current_index = prev],
                     ret |-> Get(s.queue, prev)]
           [] s.repeat_mode = "Off" ->
                IF s.current_index > 0
                THEN [state |-> [s EXCEPT !.current_index = @ - 1],
                      ret |-> Get(s.queue, s.current_index - 1)]
                ELSE [state |-> s, ret |-> Get(s.queue, 0)]

has_next(s) ==
    IF s.queue = << >> THEN FALSE
    ELSE IF s.repeat_mode \in {"One", "All"} THEN TRUE
    ELSE s.current_index + 1 < Len(s.queue)

\* RepeatMode::cycle
Cycle(mode) ==
    CASE mode = "Off" -> "All" [] mode = "All" -> "One" [] OTHER -> "Off"

cycle_repeat_mode(s) == [s EXCEPT !.repeat_mode = Cycle(@)]

\* The current track goes to the front of the shuffled queue.
MoveToFront(s, current_track, shuffled) ==
    LET pos == Position(shuffled, current_track)
    IN  IF current_track # NoTrack /\ pos >= 0
        THEN [s EXCEPT !.queue = Swap(shuffled, 0, pos),
                       !.current_index = 0]
        ELSE [s EXCEPT !.queue = shuffled]

\* The queue becomes new_queue and the index follows the current track.
FollowTrack(s, current_track, new_queue) ==
    LET pos == Position(new_queue, current_track)
    IN  IF current_track # NoTrack /\ pos >= 0
        THEN [s EXCEPT !.queue = new_queue, !.current_index = pos]
        ELSE [s EXCEPT !.queue = new_queue]

\* toggle_shuffle: the states it can leave, one per outcome of the shuffle.
toggle_shuffle(s) ==
    IF ~s.shuffle_mode
    THEN {MoveToFront([s EXCEPT !.shuffle_mode = TRUE,
                                !.original_queue = s.queue],
                      CurrentTrack(s), shuffled) :
              shuffled \in Shuffles(s.queue)}
    ELSE IF s.original_queue # << >>
         THEN {FollowTrack([s EXCEPT !.shuffle_mode = FALSE],
                           CurrentTrack(s), s.original_queue)}
         ELSE {[s EXCEPT !.shuffle_mode = FALSE]}

set_current_index(s, index) == [s EXCEPT !.current_index = index]

\* Err("New queue length doesn't match current queue") leaves the state
\* alone.
reorder_queue(s, new_queue) ==
    IF Len(new_queue) # Len(s.queue) THEN s
    ELSE FollowTrack(s, CurrentTrack(s), new_queue)

\* A queue method runs: the state is replaced under the lock.
QueueStep(next_state) ==
    /\ queue_state' = next_state
    /\ UNCHANGED <<playlist, downloadVars>>
    /\ UNCHANGED oldVars
    /\ UNCHANGED <<app_handle, lockVars>>

\* play_playlist: clear_queue, add_to_queue_batch and set_current_index(0)
\* are three calls, each under its own lock scope, so other commands run
\* between them.  AudioManager::play, which ends the command, is Play.
PlaylistStep(pc_next, tracks, next_state) ==
    /\ queue_state' = next_state
    /\ playlist' = [pc |-> pc_next, tracks |-> tracks]
    /\ UNCHANGED downloadVars
    /\ UNCHANGED oldVars
    /\ UNCHANGED <<app_handle, lockVars>>

PlayPlaylistClear(tracks) ==
    /\ playlist.pc = "idle"
    /\ PlaylistStep("batch", tracks, clear_queue(queue_state))

PlayPlaylistBatch ==
    /\ playlist.pc = "batch"
    /\ Len(queue_state.queue) + Len(playlist.tracks) <= MaxQueue
    /\ PlaylistStep("index", playlist.tracks,
                    add_to_queue_batch(queue_state, playlist.tracks))

PlayPlaylistIndex ==
    /\ playlist.pc = "index"
    /\ PlaylistStep("idle", << >>, set_current_index(queue_state, 0))

\* The queue commands of the front end, in any order; the add operations
\* stop at MaxQueue tracks.
NextQueue ==
    \/ \E track \in QueueTracks :
           /\ Len(queue_state.queue) < MaxQueue
           /\ QueueStep(add_to_queue(queue_state, track))
    \/ \E tracks \in Batches :
           /\ Len(queue_state.queue) + Len(tracks) <= MaxQueue
           /\ QueueStep(add_to_queue_batch(queue_state, tracks))
    \/ \E track \in QueueTracks :
           /\ Len(queue_state.queue) < MaxQueue
           /\ QueueStep(insert_next(queue_state, track))
    \/ \E index \in Indices :
           QueueStep(remove_from_queue(queue_state, index))
    \/ QueueStep(clear_queue(queue_state))
    \/ \E index \in Indices : QueueStep(play_track_at(queue_state, index))
    \/ QueueStep(play_next(queue_state).state)
    \/ QueueStep(play_previous(queue_state).state)
    \/ \E s \in toggle_shuffle(queue_state) : QueueStep(s)
    \/ QueueStep(cycle_repeat_mode(queue_state))
    \/ \E new_queue \in Vectors :
           QueueStep(reorder_queue(queue_state, new_queue))

SpecQueue == Init /\ [][NextQueue]_vars

\* The same with play_playlist, the one caller of set_current_index.
NextPlaylist ==
    \/ NextQueue
    \/ \E tracks \in Playlists : PlayPlaylistClear(tracks)
    \/ PlayPlaylistBatch
    \/ PlayPlaylistIndex

SpecPlaylist == Init /\ [][NextPlaylist]_vars

\* -------------------------------------------------------------------------
\* C36: after any sequence of queue operations other than
\* set_current_index, current_index is -1 or a valid index of the queue,
\* and it is -1 whenever the queue is empty.
\* -------------------------------------------------------------------------
C36_IndexValid ==
    /\ \/ queue_state.current_index = -1
       \/ /\ 0 <= queue_state.current_index
          /\ queue_state.current_index < Len(queue_state.queue)
    /\ queue_state.queue = << >> => queue_state.current_index = -1

\* How many times a track is in a queue.
Count(q, t) == Cardinality({k \in 1..Len(q) : q[k] = t})

\* -------------------------------------------------------------------------
\* C37: a toggle_shuffle call, on or off, leaves the multiset of tracks in
\* the queue unchanged: no track added while shuffled is dropped, no track
\* removed or cleared while shuffled comes back.
\* -------------------------------------------------------------------------
C37_ToggleShuffleOnlyReorders ==
    [][queue_state'.shuffle_mode # queue_state.shuffle_mode =>
           \A t \in QueueTracks :
               Count(queue_state'.queue, t) = Count(queue_state.queue, t)]_vars

\* The current track is the last of the queue.
AtLastTrack(s) == s.queue # << >> /\ s.current_index = Len(s.queue) - 1

\* -------------------------------------------------------------------------
\* C38: in every reachable queue state and repeat mode, has_next() is true
\* exactly when an immediately following play_next() returns a track; under
\* Off at the last track play_next returns nothing and keeps current_index,
\* under All it wraps to index 0, under One it returns the current track
\* and keeps current_index.
\* -------------------------------------------------------------------------
C38_HasNextAgreesWithPlayNext ==
    LET s == queue_state
        r == play_next(s)
    IN  /\ has_next(s) <=> r.ret # NoTrack
        /\ (s.repeat_mode = "Off" /\ AtLastTrack(s)) =>
               /\ r.ret = NoTrack
               /\ r.state.current_index = s.current_index
        /\ (s.repeat_mode = "All" /\ AtLastTrack(s)) =>
               /\ r.state.current_index = 0
               /\ r.ret = Nth(s.queue, 0)
        /\ (s.repeat_mode = "One" /\ s.queue # << >>) =>
               /\ r.ret = CurrentTrack(s)
               /\ r.ret # NoTrack
               /\ r.state.current_index = s.current_index

\* =========================================================================
\* DownloadManager: download_track, the task it spawns, cancel_download and
\* delete_download.  Every lock scope is one step.  A DownloadProgress is
\* its video_id and whether an error is recorded; the progress figures that
\* parse_ytdlp_progress writes into an entry are left out, and so are the
\* files and the "downloads-updated" events.
\* =========================================================================

NewProgress(video_id) == [video_id |-> video_id, error |-> FALSE]

\* HashMap::contains_key, insert, remove on active_downloads
ContainsKey(active, video_id) == \E dl \in active : dl.video_id = video_id
MapInsert(active, dl) ==
    {old \in active : old.video_id # dl.video_id} \cup {dl}
MapRemove(active, video_id) == {dl \in active : dl.video_id # video_id}

\* Vec::contains, push-if-absent and retain on completed_downloads
Contains(completed, video_id) ==
    \E k \in 1..Len(completed) : completed[k] = video_id
PushNew(completed, video_id) ==
    IF Contains(completed, video_id) THEN completed
    ELSE Append(completed, video_id)
Retain(completed, video_id) ==
    LET Keep(id) == id # video_id IN SelectSeq(completed, Keep)

\* update_download_error: `if let Some(dl) = active.get_mut(video_id)
\* { dl.error = Some(..) }`
UpdateError(active, video_id) ==
    {IF dl.video_id = video_id THEN [dl EXCEPT !.error = TRUE] ELSE dl :
         dl \in active}

\* is_downloaded(video_id)
is_downloaded(video_id) == Contains(completed_downloads, video_id)

downloadUnchanged ==
    /\ UNCHANGED queueVars
    /\ UNCHANGED oldVars
    /\ UNCHANGED <<app_handle, lockVars>>

\* download_track, first lock scope: "Download already in progress" if the
\* id is active.  The caller's earlier task, if any, is over.
DownloadTrack(d, video_id) ==
    /\ download[d].pc = "idle"
    /\ task[d].pc = "none"
    /\ download' = [download EXCEPT ![d] =
           IF ContainsKey(active_downloads, video_id)
           THEN [pc |-> "idle", id |-> video_id, ret |-> "in_progress"]
           ELSE [pc |-> "completed", id |-> video_id, ret |-> "none"]]
    /\ cancelled' = cancelled \ {video_id}
    /\ UNCHANGED <<active_downloads, completed_downloads, task>>
    /\ downloadUnchanged

\* Second lock scope: "Track already downloaded" if the id is completed.
DownloadCheckCompleted(d) ==
    /\ download[d].pc = "completed"
    /\ download' = [download EXCEPT ![d] =
           IF Contains(completed_downloads, download[d].id)
           THEN [@ EXCEPT !.pc = "idle", !.ret = "downloaded"]
           ELSE [@ EXCEPT !.pc = "insert"]]
    /\ UNCHANGED <<active_downloads, completed_downloads, task, cancelled>>
    /\ downloadUnchanged

\* Third lock scope: the progress entry is inserted.
DownloadInsert(d) ==
    /\ download[d].pc = "insert"
    /\ active_downloads' =
           MapInsert(active_downloads, NewProgress(download[d].id))
    /\ download' = [download EXCEPT ![d].pc = "spawn"]
    /\ cancelled' = cancelled \ {download[d].id}
    /\ UNCHANGED <<completed_downloads, task>>
    /\ downloadUnchanged

\* emit_downloads_update, tokio::spawn and Ok(()).
DownloadSpawn(d) ==
    /\ download[d].pc = "spawn"
    /\ task' = [task EXCEPT ![d] = [pc |-> "running", id |-> download[d].id]]
    /\ download' = [download EXCEPT ![d].pc = "idle", ![d].ret = "ok"]
    /\ UNCHANGED <<active_downloads, completed_downloads, cancelled>>
    /\ downloadUnchanged

\* The task: yt-dlp cannot be spawned or exits with a failure status;
\* update_download_error marks the entry if there is one.
TaskFails(d) ==
    /\ task[d].pc = "running"
    /\ active_downloads' = UpdateError(active_downloads, task[d].id)
    /\ task' = [task EXCEPT ![d] = NoTask]
    /\ UNCHANGED <<completed_downloads, download, cancelled>>
    /\ downloadUnchanged

\* The task: yt-dlp exits with success; mark_download_completed removes the
\* id from the active downloads.
TaskMarkRemove(d) ==
    /\ task[d].pc = "running"
    /\ active_downloads' = MapRemove(active_downloads, task[d].id)
    /\ task' = [task EXCEPT ![d].pc = "add"]
    /\ UNCHANGED <<completed_downloads, download, cancelled>>
    /\ downloadUnchanged

\* mark_download_completed adds the id to the completed downloads.
TaskMarkAdd(d) ==
    /\ task[d].pc = "add"
    /\ completed_downloads' = PushNew(completed_downloads, task[d].id)
    /\ task' = [task EXCEPT ![d].pc = "save"]
    /\ UNCHANGED <<active_downloads, download, cancelled>>
    /\ downloadUnchanged

\* save_track_metadata succeeds and the task ends.
TaskSaved(d) ==
    /\ task[d].pc = "save"
    /\ task' = [task EXCEPT ![d] = NoTask]
    /\ UNCHANGED <<active_downloads, completed_downloads, download,
                   cancelled>>
    /\ downloadUnchanged

\* save_track_metadata fails: the error goes to update_download_error.
TaskSaveFails(d) ==
    /\ task[d].pc = "save"
    /\ active_downloads' = UpdateError(active_downloads, task[d].id)
    /\ task' = [task EXCEPT ![d] = NoTask]
    /\ UNCHANGED <<completed_downloads, download, cancelled>>
    /\ downloadUnchanged

\* cancel_download(video_id): the entry is removed; the call returns Ok.
CancelDownload(video_id) ==
    /\ active_downloads' = MapRemove(active_downloads, video_id)
    /\ cancelled' = cancelled \cup {video_id}
    /\ UNCHANGED <<completed_downloads, download, task>>
    /\ downloadUnchanged

\* delete_download(video_id), the files removed without error.
DeleteDownload(video_id) ==
    /\ completed_downloads' = Retain(completed_downloads, video_id)
    /\ UNCHANGED <<active_downloads, download, task, cancelled>>
    /\ downloadUnchanged

\* Concurrent download_track calls and the tasks they spawn.
NextDownloadTrack ==
    \/ \E d \in Downloaders, video_id \in VideoIds : DownloadTrack(d, video_id)
    \/ \E d \in Downloaders :
           \/ DownloadCheckCompleted(d)
           \/ DownloadInsert(d)
           \/ DownloadSpawn(d)
           \/ TaskFails(d)
           \/ TaskMarkRemove(d)
           \/ TaskMarkAdd(d)
           \/ TaskSaved(d)
           \/ TaskSaveFails(d)

SpecDownloadTrack == Init /\ [][NextDownloadTrack]_vars

\* The same with cancel_download and delete_download.
NextDownload ==
    \/ NextDownloadTrack
    \/ \E video_id \in VideoIds : CancelDownload(video_id)
    \/ \E video_id \in VideoIds : DeleteDownload(video_id)

SpecDownload == Init /\ [][NextDownload]_vars

\* -------------------------------------------------------------------------
\* C39: once cancel_download(id) has returned, and until download_track is
\* called again for id, id is not among the completed downloads
\* (is_downloaded(id) is false) and not among the active downloads.
\* -------------------------------------------------------------------------
C39_CancelledNeverCompletes ==
    \A video_id \in cancelled :
        /\ ~is_downloaded(video_id)
        /\ ~ContainsKey(active_downloads, video_id)

\* The download tasks running for a video id.
RunningTasks(video_id) ==
    {d \in Downloaders : task[d].pc # "none" /\ task[d].id = video_id}

\* -------------------------------------------------------------------------
\* C40: for any interleaving of concurrent download_track calls, at most
\* one download task runs per video id (one call returns Ok, the others an
\* error), and no id is active and completed at the same time.
\* -------------------------------------------------------------------------
C40_OneTaskPerVideo ==
    \A video_id \in VideoIds :
        /\ Cardinality(RunningTasks(video_id)) <= 1
        /\ ~(ContainsKey(active_downloads, video_id) /\ is_downloaded(video_id))

====
